---- MODULE Spec2Model ----
(***************************************************************************)
(* Model of the audio loop station: the Loop transport and its real-time   *)
(* callback (loop.py), the playback prototype callback                     *)
(* (audio_src/play_functions.py), the track slots of a Loop, and the       *)
(* TrackScheduler / Event / MasterClock prototypes                         *)
(* (demos/draft_class_structures.py).                                      *)
(*                                                                         *)
(* Samples are modelled as integers, 1 standing for the float 1.0; a       *)
(* frame is one sample (both channels of a stereo frame are treated alike  *)
(* by every operation modelled here).  Buffers are sequences, so the       *)
(* Python index i is the TLA+ index i + 1.                                 *)
(***************************************************************************)
EXTENDS Integers, Sequences, FiniteSets, TLC

\* ------------------------------------------------------------------------
\* Program constants and bounds
\* ------------------------------------------------------------------------

\* loop.py:12  DEFAULT_LOOP_LEN = SAMPLE_RATE * DEFAULT_LOOP_SEC, scaled down.
DEFAULT_LOOP_LEN == 3

\* Recording callbacks (overdub passes) explored in one run of the loop.
MaxOverdubs == 1

\* Recording callbacks explored in one run of the playback prototype.
MaxDemoPasses == 3

\* Audio files one track reads and writes in one run.
MaxFiles == 2

\* Recording passes onto one track in one run.
MaxTrackRecords == 1

\* Events created in one run of the scheduler.
MaxEvents == 4

\* Event ids are 1..MaxEventId.
MaxEventId == 3

\* Due samples are 1..MaxDueSample.
MaxDueSample == 2

\* The clock is advanced up to this sample index.
MaxSampleIndex == 3

\* Sample indexes 0..MaxSnapIndex are snapped to the grid.
MaxSnapIndex == 12

\* loop.py:9  VALID_POSITIONS = [x for x in range(1, 7)]
VALID_POSITIONS == 1..6

\* np.clip(out, -1.0, 1.0)
CLIP_MIN == -1

CLIP_MAX == 1

\* Values an input sample takes.
InSamples == {-1, 1}

\* Block sizes the audio host delivers.  A block is a few milliseconds of
\* audio and the loop four seconds (176400 frames): a block is always shorter
\* than the loop.
Frames == 1..(DEFAULT_LOOP_LEN - 1)

\* ------------------------------------------------------------------------
\* Helpers
\* ------------------------------------------------------------------------

Min(a, b) == IF a < b THEN a ELSE b

Max(a, b) == IF a > b THEN a ELSE b

\* Python s[a:b] for 0 <= a, 0 <= b: the end is clamped to len(s).
Slice(s, a, b) == SubSeq(s, a + 1, Min(b, Len(s)))

\* The input blocks of a given size: the first frame differs from the rest,
\* so that no prefix of a block equals a later part of it.
Blocks(frames) ==
    {[k \in 1..frames |-> IF k = 1 THEN b ELSE -b] : b \in InSamples}

\* Positions the user arms for recording.
ArmedPositions == {1, 2}

\* Sum of f over the keys of f that lie in lo..hi.
RECURSIVE SumRange(_, _, _)
SumRange(f, lo, hi) ==
    IF lo > hi THEN 0
    ELSE (IF lo \in DOMAIN f THEN f[lo] ELSE 0) + SumRange(f, lo + 1, hi)

\* Position arguments tried on the slot operations: 0 and 7 lie outside 1..6.
PositionArgs == {0, 1, 2, 7}

\* Python sum() over the values of a dict keyed by positions (keys in 0..7).
SumValues(f) == SumRange(f, 0, 7)

\* The empty slot value (Python None), shaped like a track.
None == [track_name |-> "None", channel_config |-> 0, track_data |-> <<>>]

\* track.py:19  EMPTY_TRACK = np.full((DEFAULT_TRACK_LEN, 2), 0)
EMPTY_TRACK == [k \in 1..DEFAULT_LOOP_LEN |-> 0]

\* Track(track_name=..., channel_config=...) with given sample data.
Track(name, cfg, data) ==
    [track_name |-> name, channel_config |-> cfg, track_data |-> data]

\* np.clip(x, -1.0, 1.0) on one sample.
Clip(x) == Max(CLIP_MIN, Min(CLIP_MAX, x))

\* ------------------------------------------------------------------------
\* State
\* ------------------------------------------------------------------------

VARIABLES
    loop_tracks,      \* Loop.loop_tracks: position -> Track or None
    current_frame,    \* Loop.current_frame: the playhead
    is_recording,     \* Loop.is_recording
    is_playing,       \* Loop.is_playing
    recording_track,  \* Loop.recording_track: the armed position
    stream_active,    \* the sd.Stream is started (callbacks are delivered)
    outdata,          \* the output block written by the last callback
    muted,            \* per-position mute flag
    raised,           \* exception raised by the last operation, or "none"
    original,         \* history: track data at construction
    delivered,        \* history: input delivered per position and frame
    overdubs,         \* history: number of recording callbacks so far
    last_call,        \* history: playhead and size of the last callback
    pause_frame,      \* history: playhead held at pause(), -1 if none
    last_slot_op      \* history: the last slot operation and its arguments

\* play_functions.py, the playback prototype
VARIABLES
    demo_recording_track,  \* recording_track: the overdub buffer
    demo_current_frame,    \* current_frame
    demo_is_recording,     \* loop_effects["is_recording"]
    demo_outdata,          \* the output block written by the last callback
    demo_delivered,        \* history: input delivered per frame
    demo_passes            \* history: number of recording callbacks so far

\* draft_class_structures.py: TrackScheduler and MasterClock
VARIABLES
    event_queue,            \* TrackScheduler.event_queue: the heap list
    next_event,             \* TrackScheduler.next_event
    next_event_due_sample,  \* TrackScheduler.next_event_due_sample
    total_events_created,   \* TrackScheduler.total_events_created
    events,                 \* the list empty_queue() returned last
    first_added,            \* history: first event added since the last drain
    late_added,             \* history: last event added since the last drain
                            \* with a due sample earlier than the clock
    sched_op,               \* history: the last scheduler operation
    sample_rate,            \* MasterClock.sample_rate
    bpm,                    \* MasterClock.bpm
    note_subdivision,       \* MasterClock.note_subdivision, as <<num, den>>
    samples_per_tick,       \* MasterClock.samples_per_tick
    current_sample_index,   \* MasterClock.current_sample_index
    snap_in,                \* argument of the last get_closest_snap_point
    snap_out                \* its result

\* The audio stream seen as two threads: the host's callback thread and the
\* thread that calls stop()
VARIABLES
    in_flight,     \* the callback invocation that is running, or NoFlight
    stop_state,    \* "idle", "stopping" (inside stream.stop()) or "stopped"
    stop_waited,   \* history: a callback was running when stop() was called
    flushed_frame  \* history: playhead left by the first callback that
                   \* returned while stop() was waiting, -1 if none

\* controller.py: the Controller and the settings of its active loop's tracks
VARIABLES
    track_occupied,    \* Controller.track_occupied: position -> bool
    loop_to_play,      \* Controller.loop_to_play
    track_settings,    \* per position: the track's track_volume (in tenths),
                       \* is_reversed, time_dilation (in tenths) and
                       \* pitch_modulation
    ctl_raised,        \* exception raised by the last Controller call
    ctl_op,            \* history: the last Controller call and its position
    occupied_updated   \* history: track_occupied was last written by
                       \* update_all_tracks_occupied_status or clear_track

\* bucket.py: one Bucket
VARIABLES
    bucket_id,          \* Bucket.bucket_id
    is_bucket_active,   \* Bucket.is_bucket_active
    bucket_state,       \* Bucket.bucket_state
    mapped_loop,        \* Bucket.mapped_loop: the loop's id, or "None"
    loop_display_name,  \* Bucket.loop_display_name, or "None"
    loop_path,          \* Bucket.loop_path, or "None"
    is_track_filled,    \* Bucket.is_track_filled: position -> bool
    bucket_raised,      \* exception raised by the last Bucket call
    bucket_op,          \* history: the last Bucket call and its argument
    cleared_painted     \* history: the last clear_bucket ran on a bucket
                        \* none of whose fields had its default value

\* classes/track.py: one Track and the audio files it reads and writes
VARIABLES
    track_data,      \* Track.track_data
    track_filepath,  \* Track.track_filepath: index into files, 0 for None
    track_stack,     \* Track.track_stack: list of file paths
    track_volume,    \* Track.track_volume, in tenths
    files,           \* the audio files on disk, by path: their sample data
    track_raised,    \* exception raised by the last Track call
    track_records    \* history: number of recording passes so far

loop_vars == <<loop_tracks, current_frame, is_recording, is_playing,
               recording_track, stream_active, outdata, muted, raised,
               original, delivered, overdubs, last_call, pause_frame,
               last_slot_op>>

demo_vars == <<demo_recording_track, demo_current_frame, demo_is_recording,
               demo_outdata, demo_delivered, demo_passes>>

sched_vars == <<event_queue, next_event, next_event_due_sample,
                total_events_created, events, first_added, late_added,
                sched_op>>

clock_vars == <<sample_rate, bpm, note_subdivision, samples_per_tick,
                current_sample_index, snap_in, snap_out>>

stream_vars == <<in_flight, stop_state, stop_waited, flushed_frame>>

ctl_vars == <<track_occupied, loop_to_play, track_settings, ctl_raised,
              ctl_op, occupied_updated>>

\* gui_src/button_data.py: the transport handlers of the GUI thread
VARIABLES
    recorded_tracks, \* the module's list recorded_tracks
    saved,           \* per position: the samples handle_stop wrote to its file
    gui_pc,          \* "idle", or "stopping" inside handle_stop's while loop
    written,         \* history: positions written by the current/last stop
    armed_live,      \* history: positions armed while playing and recording
                     \* since the last stop
    gui_op           \* history: the last handler that returned

gui_vars == <<recorded_tracks, saved, gui_pc, written, armed_live, gui_op>>

\* buckets_module.py: BucketsModule
VARIABLES
    last_touched_bucket  \* BucketsModule.last_touched_bucket, 0 for None

module_vars == <<last_touched_bucket>>

\* loop.py: one invocation of Loop._callback whose block wraps, in progress
VARIABLES
    wrap_block,  \* the block of the invocation between its two halves
    pre_rec,     \* history: position the frames before the wrap were
                 \* recorded into, 0 when they were discarded
    post_rec     \* history: the same for the frames after the wrap

wrap_vars == <<wrap_block, pre_rec, post_rec>>

\* State of the later sections of this module.
ext_vars == <<gui_vars, module_vars, wrap_vars>>

track_vars == <<track_data, track_filepath, track_stack, track_volume, files,
                track_raised, track_records>>

bucket_fields == <<bucket_id, is_bucket_active, bucket_state, mapped_loop,
                   loop_display_name, loop_path, is_track_filled>>

bucket_vars == <<bucket_fields, bucket_raised, bucket_op, cleared_painted>>

\* Everything but the Loop.
not_loop_vars == <<demo_vars, sched_vars, clock_vars, stream_vars, ctl_vars,
                   bucket_vars, track_vars, ext_vars>>

\* Everything but the playback prototype.
not_demo_vars == <<loop_vars, sched_vars, clock_vars, stream_vars, ctl_vars,
                   bucket_vars, track_vars, ext_vars>>

\* Everything but the scheduler and its clock.
not_sched_vars == <<loop_vars, demo_vars, stream_vars, ctl_vars,
                    bucket_vars, track_vars, ext_vars>>

\* Everything but the Bucket.
not_bucket_vars == <<loop_vars, demo_vars, sched_vars, clock_vars,
                     stream_vars, ctl_vars, track_vars, ext_vars>>

\* Everything but the Track.
not_track_vars == <<loop_vars, demo_vars, sched_vars, clock_vars,
                    stream_vars, ctl_vars, bucket_vars, ext_vars>>

\* Everything but the Loop and the GUI handlers.
not_gui_vars == <<demo_vars, sched_vars, clock_vars, stream_vars, ctl_vars,
                  bucket_vars, track_vars, module_vars, wrap_vars>>

\* Everything but the bucket and the BucketsModule.
not_module_vars == <<loop_vars, demo_vars, sched_vars, clock_vars,
                     stream_vars, ctl_vars, track_vars, gui_vars, wrap_vars>>

\* Everything but the Loop and the invocation in progress.
not_wrap_vars == <<demo_vars, sched_vars, clock_vars, stream_vars, ctl_vars,
                   bucket_vars, track_vars, gui_vars, module_vars>>

vars == <<loop_vars, demo_vars, sched_vars, clock_vars, stream_vars,
          ctl_vars, bucket_vars, track_vars, ext_vars>>

\* ------------------------------------------------------------------------
\* Loop: construction
\* ------------------------------------------------------------------------

\* Sample data of a track read from an audio file; kind selects the file.
FileData(kind) ==
    [k \in 1..DEFAULT_LOOP_LEN |->
        CASE kind = "up"   -> 1
          [] kind = "down" -> -1
          [] kind = "ramp" -> ((k + 1) % 3) - 1
          [] kind = "loud" -> IF k = 1 THEN -3 ELSE 2
          [] OTHER         -> 0]

\* loop.py:73-78  track_name="Track 1" .. "Track 6"
TrackName(pos) ==
    <<"Track 1", "Track 2", "Track 3", "Track 4", "Track 5", "Track 6">>[pos]

\* Loop() with loop_tracks=None: six empty stereo tracks.
DefaultLoopTracks ==
    [pos \in VALID_POSITIONS |-> Track(TrackName(pos), 2, EMPTY_TRACK)]

\* Loop(loop_tracks=...): tracks loaded from files, as FileManager builds them.
LoadedLoopTracks ==
    [pos \in VALID_POSITIONS |->
        CASE pos = 1 -> Track(TrackName(pos), 2, FileData("up"))
          [] pos = 2 -> Track(TrackName(pos), 2, FileData("ramp"))
          [] pos = 3 -> Track(TrackName(pos), 2, FileData("loud"))
          [] pos = 4 -> Track(TrackName(pos), 2, FileData("down"))
          [] OTHER   -> Track(TrackName(pos), 2, EMPTY_TRACK)]

NoCall == [p |-> -1, frames |-> 0, resumed |-> -1]

NoSlotOp == [op |-> "none", a |-> 0, b |-> 0]

\* Loop.__init__
LoopInit(tracks) ==
    /\ loop_tracks = tracks
    /\ current_frame = 0
    /\ is_recording = FALSE
    /\ is_playing = FALSE
    /\ recording_track = 1
    /\ stream_active = FALSE
    /\ outdata = <<>>
    /\ muted = [pos \in VALID_POSITIONS |-> FALSE]
    /\ raised = "none"
    /\ original = [pos \in VALID_POSITIONS |-> tracks[pos].track_data]
    /\ delivered = [pos \in VALID_POSITIONS |-> EMPTY_TRACK]
    /\ overdubs = 0
    /\ last_call = NoCall
    /\ pause_frame = -1
    /\ last_slot_op = NoSlotOp

\* ------------------------------------------------------------------------
\* Loop: the audio callback
\* ------------------------------------------------------------------------

\* sum(track.track_data[a:b] for track in self.loop_tracks.values())
Mix(tracks, a, b) ==
    LET n == Len(Slice(EMPTY_TRACK, a, b))
    IN  [k \in 1..n |->
            SumValues([pos \in DOMAIN tracks |->
                          Slice(tracks[pos].track_data, a, b)[k]])]

\* A clip that bounds the block from below only.
M_ClipBlockLowerOnly(out) == [k \in 1..Len(out) |-> Max(CLIP_MIN, out[k])]

\* np.clip(out, -1.0, 1.0)
ClipBlock(out) == [k \in 1..Len(out) |-> Clip(out[k])]

\* data[a:a+len(block)] += block
Accumulate(data, a, block) ==
    [k \in 1..Len(data) |->
        IF k > a /\ k <= a + Len(block)
        THEN data[k] + block[k - a]
        ELSE data[k]]

\* self.loop_tracks[pos].track_data[a:a+len(block)] += block
RecordInto(tracks, pos, a, block) ==
    [tracks EXCEPT ![pos].track_data = Accumulate(@, a, block)]

\* Loop._callback: chunksize, the frames up to the end of the buffer.
CallbackChunk(p, frames) == Min(DEFAULT_LOOP_LEN - p, frames)

\* A wrap that restarts at the buffer start and drops the remaining frames.
M_WrapEndDropsRest(frames, chunksize) == 0

\* Loop._callback: end_frame = frames - chunksize, the frames after the wrap.
CallbackWrapEnd(frames, chunksize) == frames - chunksize

\* History: the input frames of one block, by the buffer frame they arrive at.
Deliver(d, p, indata) ==
    [k \in 1..DEFAULT_LOOP_LEN |->
        d[k] + SumRange([j \in 1..Len(indata) |->
                            IF ((p + j - 1) % DEFAULT_LOOP_LEN) + 1 = k
                            THEN indata[j] ELSE 0],
                        1, Len(indata))]

\* The body of Loop._callback: what one invocation reads and writes.
CallbackBody(frames, indata) ==
    /\ IF \E pos \in VALID_POSITIONS : loop_tracks[pos] = None
       THEN \* track.track_data on None raises before anything is written
            /\ raised' = "AttributeError"
            /\ UNCHANGED <<loop_tracks, current_frame, outdata, delivered,
                           overdubs>>
       ELSE LET p == current_frame
                chunksize == CallbackChunk(p, frames)
                end_frame == p + chunksize
                out1 == ClipBlock(Mix(loop_tracks, p, end_frame))
                tracks1 == IF is_recording
                           THEN RecordInto(loop_tracks, recording_track, p,
                                           Slice(indata, 0, chunksize))
                           ELSE loop_tracks
                end2 == CallbackWrapEnd(frames, chunksize)
                out2 == ClipBlock(Mix(tracks1, 0, end2))
                tracks2 == IF is_recording
                           THEN RecordInto(tracks1, recording_track, 0,
                                           Slice(indata, chunksize,
                                                 frames + chunksize))
                           ELSE tracks1
            IN  /\ raised' = "none"
                /\ IF chunksize < frames
                   THEN /\ outdata' = out1 \o out2
                        /\ current_frame' = end2
                        /\ loop_tracks' = tracks2
                   ELSE /\ outdata' = out1
                        /\ current_frame' = p + chunksize
                        /\ loop_tracks' = tracks1
                /\ IF is_recording
                   THEN /\ delivered' =
                              [delivered EXCEPT ![recording_track] =
                                  Deliver(@, p, indata)]
                        /\ overdubs' = overdubs + 1
                   ELSE UNCHANGED <<delivered, overdubs>>
    /\ last_call' = [p |-> current_frame, frames |-> frames,
                     resumed |-> pause_frame]
    /\ pause_frame' = -1
    /\ UNCHANGED <<is_recording, is_playing, recording_track, stream_active,
                   muted, original, last_slot_op>>

\* Loop._callback, invoked by the stream while it is started.
Callback(frames, indata) ==
    /\ stream_active
    /\ is_recording => overdubs < MaxOverdubs
    /\ CallbackBody(frames, indata)
    /\ UNCHANGED not_loop_vars

\* ------------------------------------------------------------------------
\* Loop: the audio callback, a wrapping block against the GUI thread
\* ------------------------------------------------------------------------

\* No invocation is between its two halves.
NoBlock == [frames |-> 0, indata |-> <<>>, chunksize |-> 0]

WrapInit ==
    /\ wrap_block = NoBlock
    /\ pre_rec = -1
    /\ post_rec = -1

\* Loop._callback for a block that ends within the buffer: the GUI thread
\* sees it as one step.
callback_unwrapped(frames, indata) ==
    /\ stream_active
    /\ wrap_block = NoBlock
    /\ CallbackChunk(current_frame, frames) = frames
    /\ is_recording => overdubs < MaxOverdubs
    /\ CallbackBody(frames, indata)
    /\ UNCHANGED wrap_vars
    /\ UNCHANGED not_wrap_vars

\* Loop._callback for a block that wraps, up to "if chunksize < frames":
\* the frames before the wrap are output and, if self.is_recording,
\* recorded into self.recording_track.
callback_prewrap(frames, indata) ==
    /\ stream_active
    /\ wrap_block = NoBlock
    /\ CallbackChunk(current_frame, frames) < frames
    /\ overdubs < MaxOverdubs
    /\ LET p == current_frame
           chunksize == CallbackChunk(p, frames)
           head == Slice(indata, 0, chunksize)
       IN  /\ outdata' = ClipBlock(Mix(loop_tracks, p, p + chunksize))
           /\ IF is_recording
              THEN /\ loop_tracks' =
                         RecordInto(loop_tracks, recording_track, p, head)
                   /\ delivered' = [delivered EXCEPT ![recording_track] =
                                        Deliver(@, p, head)]
                   /\ overdubs' = overdubs + 1
                   /\ pre_rec' = recording_track
              ELSE /\ UNCHANGED <<loop_tracks, delivered, overdubs>>
                   /\ pre_rec' = 0
           /\ wrap_block' = [frames |-> frames, indata |-> indata,
                             chunksize |-> chunksize]
    /\ post_rec' = -1
    /\ raised' = "none"
    /\ last_call' = [p |-> current_frame, frames |-> frames,
                     resumed |-> pause_frame]
    /\ pause_frame' = -1
    /\ UNCHANGED <<current_frame, is_recording, is_playing, recording_track,
                   stream_active, muted, original, last_slot_op>>
    /\ UNCHANGED not_wrap_vars

\* The second half reads self.is_recording and self.recording_track anew.
PostwrapTarget == IF is_recording THEN recording_track ELSE 0

\* Loop._callback for a block that wraps, the body of "if chunksize <
\* frames": the frames after the wrap are output and recorded from the
\* start of the buffer, and the playhead is set.
callback_postwrap ==
    /\ wrap_block # NoBlock
    /\ LET frames == wrap_block.frames
           chunksize == wrap_block.chunksize
           end_frame == CallbackWrapEnd(frames, chunksize)
           tail == Slice(wrap_block.indata, chunksize, frames + chunksize)
           target == PostwrapTarget
       IN  /\ outdata' = outdata \o ClipBlock(Mix(loop_tracks, 0, end_frame))
           /\ current_frame' = end_frame
           /\ IF target # 0
              THEN /\ loop_tracks' = RecordInto(loop_tracks, target, 0, tail)
                   /\ delivered' = [delivered EXCEPT ![target] =
                                        Deliver(@, 0, tail)]
                   /\ overdubs' = IF pre_rec = 0 THEN overdubs + 1
                                  ELSE overdubs
              ELSE UNCHANGED <<loop_tracks, delivered, overdubs>>
           /\ post_rec' = target
    /\ wrap_block' = NoBlock
    /\ raised' = "none"
    /\ UNCHANGED <<is_recording, is_playing, recording_track, stream_active,
                   muted, original, last_call, pause_frame, last_slot_op,
                   pre_rec>>
    /\ UNCHANGED not_wrap_vars

\* ------------------------------------------------------------------------
\* Loop: transport
\* ------------------------------------------------------------------------

\* A play() that rewinds the playhead, as stop() does.
M_PlayRewinds ==
    /\ stream_active' = TRUE
    /\ is_playing' = TRUE
    /\ current_frame' = 0
    /\ raised' = "none"
    /\ UNCHANGED last_call
    /\ UNCHANGED <<loop_tracks, is_recording, recording_track,
                   outdata, muted, original, delivered, overdubs, pause_frame,
                   last_slot_op>>
    /\ UNCHANGED not_loop_vars

\* Loop.play, on the Loop alone
play_effect ==
    /\ stream_active' = TRUE
    /\ is_playing' = TRUE
    /\ raised' = "none"
    /\ UNCHANGED last_call
    /\ UNCHANGED <<loop_tracks, current_frame, is_recording, recording_track,
                   outdata, muted, original, delivered, overdubs, pause_frame,
                   last_slot_op>>

\* Loop.play
play ==
    /\ play_effect
    /\ UNCHANGED not_loop_vars

\* Loop.stop, on the Loop alone
stop_effect ==
    /\ stream_active' = FALSE
    /\ is_playing' = FALSE
    /\ current_frame' = 0
    /\ raised' = "none"
    /\ UNCHANGED last_call
    /\ pause_frame' = -1
    /\ UNCHANGED <<loop_tracks, is_recording, recording_track, outdata, muted,
                   original, delivered, overdubs, last_slot_op>>

\* Loop.stop
stop ==
    /\ stop_effect
    /\ UNCHANGED not_loop_vars

\* Loop.pause
pause ==
    /\ stream_active' = FALSE
    /\ raised' = "none"
    /\ UNCHANGED last_call
    /\ pause_frame' = current_frame
    /\ UNCHANGED <<loop_tracks, current_frame, is_recording, is_playing,
                   recording_track, outdata, muted, original, delivered,
                   overdubs, last_slot_op>>
    /\ UNCHANGED not_loop_vars

\* Loop.set_is_recording
set_is_recording(b) ==
    /\ is_recording' = b
    /\ raised' = "none"
    /\ UNCHANGED last_call
    /\ UNCHANGED <<loop_tracks, current_frame, is_playing, recording_track,
                   stream_active, outdata, muted, original, delivered,
                   overdubs, pause_frame, last_slot_op>>
    /\ UNCHANGED not_loop_vars

\* Loop.set_recording_track
set_recording_track(track) ==
    /\ recording_track' = track
    /\ raised' = "none"
    /\ UNCHANGED last_call
    /\ UNCHANGED <<loop_tracks, current_frame, is_recording, is_playing,
                   stream_active, outdata, muted, original, delivered,
                   overdubs, pause_frame, last_slot_op>>
    /\ UNCHANGED not_loop_vars

\* ------------------------------------------------------------------------
\* Loop: stop() against a running callback
\* ------------------------------------------------------------------------

NoFlight == [frames |-> 0, indata |-> <<>>]

\* sd.Stream(callback=self._callback): no callback runs, no stop() is pending.
StreamInit ==
    /\ in_flight = NoFlight
    /\ stop_state = "idle"
    /\ stop_waited = FALSE
    /\ flushed_frame = -1

\* The host invokes Loop._callback on its own thread, one invocation at a
\* time, while the stream is started (stream.stop() may be waiting).
callback_enter(frames, indata) ==
    /\ stream_active
    /\ in_flight = NoFlight
    /\ is_recording => overdubs < MaxOverdubs
    /\ in_flight' = [frames |-> frames, indata |-> indata]
    /\ UNCHANGED <<stop_state, stop_waited, flushed_frame>>
    /\ UNCHANGED <<loop_vars, demo_vars, sched_vars, clock_vars, ctl_vars,
                   bucket_vars, track_vars, ext_vars>>

\* The running invocation of Loop._callback completes.
callback_return ==
    /\ in_flight # NoFlight
    /\ is_recording => overdubs < MaxOverdubs
    /\ CallbackBody(in_flight.frames, in_flight.indata)
    /\ in_flight' = NoFlight
    /\ flushed_frame' = IF stop_state = "stopping" /\ flushed_frame = -1
                        THEN current_frame' ELSE flushed_frame
    /\ UNCHANGED <<stop_state, stop_waited>>
    /\ UNCHANGED <<demo_vars, sched_vars, clock_vars, ctl_vars, bucket_vars,
                   track_vars, ext_vars>>

\* Loop.stop is called: it enters self.stream.stop().
stop_call ==
    /\ stop_state # "stopping"
    /\ stop_state' = "stopping"
    /\ stop_waited' = (in_flight # NoFlight)
    /\ flushed_frame' = -1
    /\ UNCHANGED in_flight
    /\ UNCHANGED <<loop_vars, demo_vars, sched_vars, clock_vars, ctl_vars,
                   bucket_vars, track_vars, ext_vars>>

\* A stream.stop() that returns while a callback is still running.
M_StreamStopNoWait == TRUE

\* self.stream.stop() returns: PortAudio's Pa_StopStream blocks until the
\* running callback has completed, and no callback is invoked afterwards.
StreamStopReturns == in_flight = NoFlight

\* Loop.stop after stream.stop() has returned:
\* self.is_playing = False; self.current_frame = 0.
stop_return ==
    /\ stop_state = "stopping"
    /\ StreamStopReturns
    /\ stream_active' = FALSE
    /\ is_playing' = FALSE
    /\ current_frame' = 0
    /\ raised' = "none"
    /\ pause_frame' = -1
    /\ stop_state' = "stopped"
    /\ UNCHANGED <<in_flight, stop_waited, flushed_frame>>
    /\ UNCHANGED <<loop_tracks, is_recording, recording_track, outdata, muted,
                   original, delivered, overdubs, last_call, last_slot_op>>
    /\ UNCHANGED <<demo_vars, sched_vars, clock_vars, ctl_vars, bucket_vars,
                   track_vars, ext_vars>>

\* Loop.play, called by the thread that calls stop() (not while it is inside
\* stop()).
stream_play ==
    /\ stop_state # "stopping"
    /\ stream_active' = TRUE
    /\ is_playing' = TRUE
    /\ raised' = "none"
    /\ stop_state' = "idle"
    /\ UNCHANGED <<in_flight, stop_waited, flushed_frame>>
    /\ UNCHANGED <<loop_tracks, current_frame, is_recording, recording_track,
                   outdata, muted, original, delivered, overdubs, last_call,
                   pause_frame, last_slot_op>>
    /\ UNCHANGED <<demo_vars, sched_vars, clock_vars, ctl_vars, bucket_vars,
                   track_vars, ext_vars>>

\* ------------------------------------------------------------------------
\* Loop: muting (called by Controller.mute_track / unmute_track)
\* ------------------------------------------------------------------------

\* Loop.mute_track
mute_track(pos) ==
    /\ muted' = [muted EXCEPT ![pos] = TRUE]
    /\ raised' = "none"
    /\ UNCHANGED <<loop_tracks, current_frame, is_recording, is_playing,
                   recording_track, stream_active, outdata, original,
                   delivered, overdubs, last_call, pause_frame, last_slot_op>>
    /\ UNCHANGED not_loop_vars

\* Loop.unmute_track
unmute_track(pos) ==
    /\ muted' = [muted EXCEPT ![pos] = FALSE]
    /\ raised' = "none"
    /\ UNCHANGED <<loop_tracks, current_frame, is_recording, is_playing,
                   recording_track, stream_active, outdata, original,
                   delivered, overdubs, last_call, pause_frame, last_slot_op>>
    /\ UNCHANGED not_loop_vars

\* ------------------------------------------------------------------------
\* Loop: the track slots
\* ------------------------------------------------------------------------

\* Loop.check_position: TRUE when the position passes, else ValueError.
check_position(position) == position \in VALID_POSITIONS

\* The slot operations leave the transport alone.
SlotFrame ==
    /\ UNCHANGED <<current_frame, is_recording, is_playing, recording_track,
                   stream_active, outdata, muted, original, delivered,
                   overdubs, last_call, pause_frame>>
    /\ UNCHANGED not_loop_vars

\* Loop.set_track: self.loop_tracks[position] = track, for any key.
set_track(track, position) ==
    /\ loop_tracks' =
           [pos \in (DOMAIN loop_tracks) \cup {position} |->
               IF pos = position THEN track ELSE loop_tracks[pos]]
    /\ raised' = "none"
    /\ last_slot_op' = [op |-> "set_track", a |-> position, b |-> position]
    /\ SlotFrame

\* Loop.remove_track
remove_track(position) ==
    /\ IF ~check_position(position)
       THEN /\ raised' = "ValueError"
            /\ UNCHANGED loop_tracks
       ELSE /\ raised' = "none"
            /\ loop_tracks' = [loop_tracks EXCEPT ![position] = None]
    /\ last_slot_op' = [op |-> "remove_track", a |-> position, b |-> position]
    /\ SlotFrame

\* track.channel_config(): channel_config is an int attribute of Track
\* (track.py:58, classes/track.py:48), not a method, so the call raises
\* TypeError ('int' object is not callable) for every track.
channel_config_call(track) == "TypeError"

\* self.loop_tracks[position_1], self.loop_tracks[position_2] = track2, track1
SwapSlots(tracks, position_1, position_2) ==
    [pos \in DOMAIN tracks |->
        IF pos = position_2 THEN tracks[position_1]
        ELSE IF pos = position_1 THEN tracks[position_2]
        ELSE tracks[pos]]

\* A move that swaps the slots before it compares the configurations.
M_MoveSwapsFirst(position_2, position_1) ==
    /\ IF ~check_position(position_1) \/ ~check_position(position_2)
       THEN /\ raised' = "ValueError"
            /\ UNCHANGED loop_tracks
       ELSE LET track1 == loop_tracks[position_1]
                track2 == loop_tracks[position_2]
            IN  /\ loop_tracks' = SwapSlots(loop_tracks, position_1, position_2)
                /\ raised' = IF track1 = None \/ track2 = None
                             THEN "none" ELSE "TypeError"
    /\ last_slot_op' = [op |-> "move_track", a |-> position_2,
                        b |-> position_1]
    /\ SlotFrame

\* Loop.move_track
move_track(position_2, position_1) ==
    /\ IF ~check_position(position_1) \/ ~check_position(position_2)
       THEN /\ raised' = "ValueError"
            /\ UNCHANGED loop_tracks
       ELSE LET track1 == loop_tracks[position_1]
                track2 == loop_tracks[position_2]
            IN  IF track1 = None \/ track2 = None
                THEN /\ loop_tracks' =
                            SwapSlots(loop_tracks, position_1, position_2)
                     /\ raised' = "none"
                ELSE IF channel_config_call(track1) = "TypeError"
                        \/ channel_config_call(track2) = "TypeError"
                        \/ channel_config_call(track1)
                               # channel_config_call(track2)
                THEN /\ raised' = "TypeError"
                     /\ UNCHANGED loop_tracks
                ELSE /\ loop_tracks' =
                            SwapSlots(loop_tracks, position_1, position_2)
                     /\ raised' = "none"
    /\ last_slot_op' = [op |-> "move_track", a |-> position_2,
                        b |-> position_1]
    /\ SlotFrame

\* Controller.move_track: active_loop = self.get_active_loop binds the method
\* without calling it, so active_loop.move_track raises AttributeError.
Controller_move_track(from_pos, to_pos) ==
    /\ raised' = "AttributeError"
    /\ last_slot_op' = [op |-> "Controller.move_track", a |-> from_pos,
                        b |-> to_pos]
    /\ UNCHANGED loop_tracks
    /\ SlotFrame

\* ------------------------------------------------------------------------
\* Controller: the occupancy map and the track operations (controller.py)
\* ------------------------------------------------------------------------

\* Positions passed to the Controller calls: 0 lies outside 1..6, 1 holds a
\* track in the loaded loop and 4 holds none.
CtlPositions == {0, 1, 4}

\* Volumes passed to adjust_track_volume, in tenths: 0.7, and 1.5 which lies
\* outside 0.0..1.0.
VolumeArgs == {7, 15}

\* Time dilation factors passed to apply_xf1, in tenths: 1.5.
XF1Args == {15}

\* Half-steps passed to apply_xf2.
XF2Args == {3}

\* The effect attributes of a new Track (track.py:57, 76-78).
DefaultSettings ==
    [track_volume |-> 10, is_reversed |-> FALSE, time_dilation |-> 0,
     pitch_modulation |-> 0]

\* A loop as a .loop file holds it: tracks at positions 1..3, no track at
\* positions 4..6.
PartialLoopTracks ==
    [pos \in VALID_POSITIONS |->
        IF pos <= 3 THEN Track(TrackName(pos), 2, EMPTY_TRACK) ELSE None]

\* Everything of the Loop but its slots.
loop_rest == <<current_frame, is_recording, is_playing, recording_track,
               stream_active, outdata, muted, raised, original, delivered,
               overdubs, last_call, pause_frame, last_slot_op>>

\* What no Controller call touches.
CtlFrame ==
    /\ UNCHANGED loop_rest
    /\ UNCHANGED <<demo_vars, sched_vars, clock_vars, stream_vars,
                   bucket_vars, track_vars, ext_vars>>

\* Controller.__init__
CtlInit ==
    /\ track_occupied = [pos \in VALID_POSITIONS |-> FALSE]
    /\ loop_to_play = None
    /\ track_settings = [pos \in VALID_POSITIONS |-> DefaultSettings]
    /\ ctl_raised = "none"
    /\ ctl_op = [op |-> "init", position |-> 0]
    /\ occupied_updated = FALSE

\* Controller.get_is_track_occupied: self.track_occupied[position]; a
\* position that is no key of the dict raises KeyError.
get_is_track_occupied(position) ==
    IF position \in DOMAIN track_occupied
    THEN (IF track_occupied[position] THEN "True" ELSE "False")
    ELSE "KeyError"

\* Controller.set_active_loop, with the tracks of the loop given.
set_active_loop(tracks) ==
    /\ loop_tracks' = tracks
    /\ track_settings' = [pos \in VALID_POSITIONS |-> DefaultSettings]
    /\ ctl_raised' = "none"
    /\ ctl_op' = [op |-> "set_active_loop", position |-> 0]
    /\ occupied_updated' = FALSE
    /\ UNCHANGED <<track_occupied, loop_to_play>>
    /\ CtlFrame

\* Controller.set_track_position_occupied
set_track_position_occupied(position, is_occupied) ==
    /\ IF position \in DOMAIN track_occupied
       THEN /\ track_occupied' =
                  [track_occupied EXCEPT ![position] = is_occupied]
            /\ ctl_raised' = "none"
       ELSE /\ ctl_raised' = "KeyError"
            /\ UNCHANGED track_occupied
    /\ ctl_op' = [op |-> "set_track_position_occupied",
                  position |-> position]
    /\ occupied_updated' = FALSE
    /\ UNCHANGED <<loop_tracks, loop_to_play, track_settings>>
    /\ CtlFrame

\* Controller.update_all_tracks_occupied_status
update_all_tracks_occupied_status ==
    /\ track_occupied' =
           [pos \in VALID_POSITIONS \cup DOMAIN loop_tracks |->
               IF pos \in DOMAIN loop_tracks /\ loop_tracks[pos] # None
               THEN TRUE
               ELSE IF pos \in VALID_POSITIONS THEN FALSE ELSE TRUE]
    /\ ctl_raised' = "none"
    /\ ctl_op' = [op |-> "update_all_tracks_occupied_status",
                  position |-> 0]
    /\ occupied_updated' = TRUE
    /\ UNCHANGED <<loop_tracks, loop_to_play, track_settings>>
    /\ CtlFrame

\* The common shape of the track operations: if
\* self.get_is_track_occupied(position): <body>.  The body reads
\* self.active_loop.loop_tracks[position] and calls a setter on it, which
\* raises AttributeError when the slot holds None.
TrackOperation(name, position, settings) ==
    /\ CASE get_is_track_occupied(position) = "KeyError" ->
               /\ ctl_raised' = "KeyError"
               /\ UNCHANGED track_settings
         [] get_is_track_occupied(position) = "False" ->
               /\ ctl_raised' = "none"
               /\ UNCHANGED track_settings
         [] OTHER ->
               IF loop_tracks[position] = None
               THEN /\ ctl_raised' = "AttributeError"
                    /\ UNCHANGED track_settings
               ELSE /\ ctl_raised' = "none"
                    /\ track_settings' =
                          [track_settings EXCEPT ![position] = settings]
    /\ ctl_op' = [op |-> name, position |-> position]
    /\ UNCHANGED <<loop_tracks, track_occupied, loop_to_play,
                   occupied_updated>>
    /\ CtlFrame

\* Controller.adjust_track_volume: track.set_volume(volume), which stores
\* the volume whatever its value (track.py:197-199).
adjust_track_volume(position, volume) ==
    TrackOperation("adjust_track_volume", position,
                   IF position \in VALID_POSITIONS
                   THEN [track_settings[position] EXCEPT
                            !.track_volume = volume]
                   ELSE DefaultSettings)

\* Controller.apply_reverse: track.set_reverse(not track.is_reversed)
apply_reverse(position) ==
    TrackOperation("apply_reverse", position,
                   IF position \in VALID_POSITIONS
                   THEN [track_settings[position] EXCEPT
                            !.is_reversed = ~@]
                   ELSE DefaultSettings)

\* Controller.apply_xf1: track.set_time_dilation(value)
apply_xf1(position, value) ==
    TrackOperation("apply_xf1", position,
                   IF position \in VALID_POSITIONS
                   THEN [track_settings[position] EXCEPT
                            !.time_dilation = value]
                   ELSE DefaultSettings)

\* Controller.apply_xf2: track.set_pitch_modulation(value)
apply_xf2(position, value) ==
    TrackOperation("apply_xf2", position,
                   IF position \in VALID_POSITIONS
                   THEN [track_settings[position] EXCEPT
                            !.pitch_modulation = value]
                   ELSE DefaultSettings)

\* Controller.solo_track: self.set_loop_to_play(track)
solo_track(position) ==
    /\ CASE get_is_track_occupied(position) = "KeyError" ->
               /\ ctl_raised' = "KeyError"
               /\ UNCHANGED loop_to_play
         [] get_is_track_occupied(position) = "False" ->
               /\ ctl_raised' = "none"
               /\ UNCHANGED loop_to_play
         [] OTHER ->
               /\ ctl_raised' = "none"
               /\ loop_to_play' = loop_tracks[position]
    /\ ctl_op' = [op |-> "solo_track", position |-> position]
    /\ UNCHANGED <<loop_tracks, track_occupied, track_settings,
                   occupied_updated>>
    /\ CtlFrame

\* A clear_track that empties the slot and leaves the flag set.
M_ClearTrackKeepsFlag(position) ==
    /\ CASE get_is_track_occupied(position) = "KeyError" ->
               /\ ctl_raised' = "KeyError"
               /\ UNCHANGED <<loop_tracks, track_occupied, track_settings>>
         [] get_is_track_occupied(position) = "False" ->
               /\ ctl_raised' = "none"
               /\ UNCHANGED <<loop_tracks, track_occupied, track_settings>>
         [] OTHER ->
               /\ ctl_raised' = "none"
               /\ loop_tracks' = [loop_tracks EXCEPT ![position] = None]
               /\ UNCHANGED track_occupied
               /\ track_settings' =
                      [track_settings EXCEPT ![position] = DefaultSettings]
    /\ ctl_op' = [op |-> "clear_track", position |-> position]
    /\ UNCHANGED <<loop_to_play, occupied_updated>>
    /\ CtlFrame

\* Controller.clear_track: self.active_loop.remove_track(position);
\* self.set_track_position_occupied(position, False).  The keys of
\* track_occupied that the flag test lets through are valid positions of
\* the loop, so remove_track's check_position passes.
clear_track(position) ==
    /\ CASE get_is_track_occupied(position) = "KeyError" ->
               /\ ctl_raised' = "KeyError"
               /\ UNCHANGED <<loop_tracks, track_occupied, track_settings>>
         [] get_is_track_occupied(position) = "False" ->
               /\ ctl_raised' = "none"
               /\ UNCHANGED <<loop_tracks, track_occupied, track_settings>>
         [] OTHER ->
               /\ ctl_raised' = "none"
               /\ loop_tracks' = [loop_tracks EXCEPT ![position] = None]
               /\ track_occupied' =
                      [track_occupied EXCEPT ![position] = FALSE]
               /\ track_settings' =
                      [track_settings EXCEPT ![position] = DefaultSettings]
    /\ ctl_op' = [op |-> "clear_track", position |-> position]
    /\ UNCHANGED <<loop_to_play, occupied_updated>>
    /\ CtlFrame

\* ------------------------------------------------------------------------
\* Track: the sample buffer, its files and the undo stack (classes/track.py)
\* ------------------------------------------------------------------------

\* Lengths, in frames, of the audio files a track is constructed from:
\* shorter than, equal to and longer than the track length.
FileLens == {DEFAULT_LOOP_LEN - 1, DEFAULT_LOOP_LEN, DEFAULT_LOOP_LEN + 1}

\* The samples of an audio file of n frames; every frame differs.
AudioFile(n) == [k \in 1..n |-> k]

\* Frame offsets passed to Track.slip, within and beyond the track length.
SlipArgs == {-4, -1, 1, 3}

\* Volumes passed to Track.set_volume, in tenths: 0.5 and 1.5.
TrackVolumeArgs == {5, 15}

\* A read that takes the whole file, whatever its length.
M_ReadWholeFile(data) == data

\* data, fs = sf.read(path); the first DEFAULT_TRACK_LEN frames of a longer
\* file, a shorter file copied onto the start of a copy of EMPTY_TRACK.
ReadTrackFile(data) ==
    IF Len(data) > DEFAULT_LOOP_LEN
    THEN Slice(data, 0, DEFAULT_LOOP_LEN)
    ELSE [k \in 1..DEFAULT_LOOP_LEN |->
             IF k <= Len(data) THEN data[k] ELSE EMPTY_TRACK[k]]

\* Track.__init__(track_filepath=...): disk holds the files given; path 0
\* stands for None.
TrackInit(disk, path) ==
    /\ files = disk
    /\ track_filepath = path
    /\ track_data = IF path = 0 THEN EMPTY_TRACK
                    ELSE ReadTrackFile(disk[path])
    /\ track_stack = IF path = 0 THEN <<>> ELSE <<path>>
    /\ track_volume = 10
    /\ track_raised = "none"
    /\ track_records = 0

\* Track.generate_track_file: writes track_data to a new file named after
\* the current time, makes it the track's file and appends it to the stack.
generate_track_file ==
    /\ Len(files) < MaxFiles
    /\ files' = Append(files, track_data)
    /\ track_filepath' = Len(files) + 1
    /\ track_stack' = Append(track_stack, Len(files) + 1)
    /\ track_raised' = "none"
    /\ UNCHANGED <<track_data, track_volume, track_records>>
    /\ UNCHANGED not_track_vars

\* Track.set_data; sf.read(None) raises TypeError.
set_data ==
    /\ IF track_filepath = 0
       THEN /\ track_raised' = "TypeError"
            /\ UNCHANGED track_data
       ELSE /\ track_raised' = "none"
            /\ track_data' = ReadTrackFile(files[track_filepath])
    /\ UNCHANGED <<track_filepath, track_stack, track_volume, files,
                   track_records>>
    /\ UNCHANGED not_track_vars

\* Track.set_last_track: cur_file = self.track_stack.pop();
\* last_file = self.track_stack.pop(); then set_data() on last_file.
set_last_track ==
    /\ IF Len(track_stack) <= 1
       THEN UNCHANGED <<track_stack, track_filepath, track_data>>
       ELSE LET last_file == track_stack[Len(track_stack) - 1]
            IN  /\ track_stack' = SubSeq(track_stack, 1, Len(track_stack) - 2)
                /\ track_filepath' = last_file
                /\ track_data' = ReadTrackFile(files[last_file])
    /\ track_raised' = "none"
    /\ UNCHANGED <<track_volume, files, track_records>>
    /\ UNCHANGED not_track_vars

\* Track.clear
track_clear ==
    /\ track_data' = [k \in 1..DEFAULT_LOOP_LEN |-> 0]
    /\ track_raised' = "none"
    /\ UNCHANGED <<track_filepath, track_stack, track_volume, files,
                   track_records>>
    /\ UNCHANGED not_track_vars

\* Track.reverse: self.track_data[::-1]
reverse ==
    /\ track_data' = [k \in 1..Len(track_data) |->
                          track_data[Len(track_data) + 1 - k]]
    /\ track_raised' = "none"
    /\ UNCHANGED <<track_filepath, track_stack, track_volume, files,
                   track_records>>
    /\ UNCHANGED not_track_vars

\* Frame counts typed into the "Slip track" dialog.
SlipFrames == {-1, 0, 1}

\* Track.slip(frames) for |frames| < len(track_data): the data shifted by
\* frames, zero padded.
Slip(audio, frames) ==
    LET N == Len(audio)
    IN  IF frames = 0 THEN audio
        ELSE IF frames > 0
        THEN [k \in 1..N |-> IF k > frames THEN audio[k - frames] ELSE 0]
        ELSE [k \in 1..N |-> IF k <= N + frames THEN audio[k - frames]
                              ELSE 0]

\* Python len(a[:n]) for a of length N and any integer n.
LenUpTo(N, n) == IF n >= 0 THEN Min(n, N) ELSE Max(N + n, 0)

\* Track.slip(frames) for any frames: the slice assignment raises ValueError
\* when the source slice has neither the length of the destination nor
\* length 1 (numpy broadcasting); then track_data is not written.
SlipAny(audio, frames) ==
    LET N == Len(audio)
        f == IF frames < 0 THEN -frames ELSE frames
        dest == IF frames > 0 THEN Max(N - f, 0) ELSE LenUpTo(N, N - f)
        src == IF frames > 0 THEN LenUpTo(N, N - f) ELSE Max(N - f, 0)
    IN  IF frames = 0 THEN [data |-> audio, error |-> "none"]
        ELSE IF src # dest /\ src # 1
        THEN [data |-> audio, error |-> "ValueError"]
        ELSE IF f >= N
        THEN [data |-> [k \in 1..N |-> 0], error |-> "none"]
        ELSE [data |-> Slip(audio, frames), error |-> "none"]

\* Track.slip
slip(frames) ==
    /\ track_data' = SlipAny(track_data, frames).data
    /\ track_raised' = SlipAny(track_data, frames).error
    /\ UNCHANGED <<track_filepath, track_stack, track_volume, files,
                   track_records>>
    /\ UNCHANGED not_track_vars

\* Recording onto the track, as Loop._callback does:
\* track_data[p:p+len(block)] += block
track_record(p, block) ==
    /\ track_records < MaxTrackRecords
    /\ track_data' = Accumulate(track_data, p, block)
    /\ track_records' = track_records + 1
    /\ track_raised' = "none"
    /\ UNCHANGED <<track_filepath, track_stack, track_volume, files>>
    /\ UNCHANGED not_track_vars

\* Track.set_volume: the Exception is constructed and not raised, and the
\* volume is stored.
set_volume(volume) ==
    /\ track_volume' = volume
    /\ track_raised' = "none"
    /\ UNCHANGED <<track_data, track_filepath, track_stack, files,
                   track_records>>
    /\ UNCHANGED not_track_vars

\* ------------------------------------------------------------------------
\* Transport handlers of the GUI (gui_src/button_data.py)
\* ------------------------------------------------------------------------

\* button_dict["track"]: the positions of the track-select buttons used.
SelectArgs == ArmedPositions

\* recorded_tracks = [], and no file written yet.
GuiInit ==
    /\ recorded_tracks = <<>>
    /\ saved = [t \in SelectArgs |-> <<>>]
    /\ gui_pc = "idle"
    /\ written = {}
    /\ armed_live = {}
    /\ gui_op = "none"

\* BucketsModule.__init__: self.last_touched_bucket = None
ModuleInit == last_touched_bucket = 0

ExtInit == GuiInit /\ ModuleInit /\ WrapInit

\* x in recorded_tracks
InList(x, list) == \E i \in 1..Len(list) : list[i] = x

\* if ... loop.recording_track not in recorded_tracks:
\*     recorded_tracks.append(loop.recording_track)
AppendArmed(cond, track) ==
    IF cond /\ ~InList(track, recorded_tracks)
    THEN Append(recorded_tracks, track)
    ELSE recorded_tracks

\* The positions armed while the loop plays and records, after a handler.
ArmedLive(playing, recording, track) ==
    IF playing /\ recording THEN armed_live \cup {track} ELSE armed_live

\* handle_record
handle_record ==
    /\ gui_pc = "idle"
    /\ is_recording' = ~is_recording
    /\ recorded_tracks' = AppendArmed(is_playing, recording_track)
    /\ armed_live' = ArmedLive(is_playing, ~is_recording, recording_track)
    /\ gui_op' = "handle_record"
    /\ UNCHANGED <<loop_tracks, current_frame, is_playing, recording_track,
                   stream_active, outdata, muted, raised, original, delivered,
                   overdubs, last_call, pause_frame, last_slot_op>>
    /\ UNCHANGED <<saved, gui_pc, written>>
    /\ UNCHANGED not_gui_vars

\* handle_play
handle_play ==
    /\ gui_pc = "idle"
    /\ play_effect
    /\ recorded_tracks' = AppendArmed(is_recording, recording_track)
    /\ armed_live' = ArmedLive(TRUE, is_recording, recording_track)
    /\ gui_op' = "handle_play"
    /\ UNCHANGED <<saved, gui_pc, written>>
    /\ UNCHANGED not_gui_vars

\* A handle_select_track that arms the position and does not list it.
M_SelectTrackNoAppend(track) ==
    /\ gui_pc = "idle"
    /\ recording_track' = track
    /\ raised' = "none"
    /\ armed_live' = ArmedLive(is_playing, is_recording, track)
    /\ gui_op' = "handle_select_track"
    /\ UNCHANGED <<loop_tracks, current_frame, is_recording, is_playing,
                   stream_active, outdata, muted, original, delivered,
                   overdubs, last_call, pause_frame, last_slot_op>>
    /\ UNCHANGED <<recorded_tracks, saved, gui_pc, written>>
    /\ UNCHANGED not_gui_vars

\* handle_select_track
handle_select_track(track) ==
    /\ gui_pc = "idle"
    /\ recording_track' = track
    /\ raised' = "none"
    /\ recorded_tracks' = AppendArmed(is_recording /\ is_playing, track)
    /\ armed_live' = ArmedLive(is_playing, is_recording, track)
    /\ gui_op' = "handle_select_track"
    /\ UNCHANGED <<loop_tracks, current_frame, is_recording, is_playing,
                   stream_active, outdata, muted, original, delivered,
                   overdubs, last_call, pause_frame, last_slot_op>>
    /\ UNCHANGED <<saved, gui_pc, written>>
    /\ UNCHANGED not_gui_vars

\* handle_stop, one pass of its while loop: t = recorded_tracks.pop();
\* loop.get_track(t).generate_track_file(), which writes track_data to a file.
\* The audio thread runs between the passes.
handle_stop_write ==
    /\ recorded_tracks # <<>>
    /\ LET t == recorded_tracks[Len(recorded_tracks)]
       IN  /\ recorded_tracks' = SubSeq(recorded_tracks, 1,
                                        Len(recorded_tracks) - 1)
           /\ saved' = [saved EXCEPT ![t] = loop_tracks[t].track_data]
           /\ written' = IF gui_pc = "idle" THEN {t} ELSE written \cup {t}
    /\ gui_pc' = "stopping"
    /\ UNCHANGED <<armed_live, gui_op>>
    /\ UNCHANGED loop_vars
    /\ UNCHANGED not_gui_vars

\* handle_stop, after its while loop: loop.stop(), and the handler returns.
handle_stop_return ==
    /\ recorded_tracks = <<>>
    /\ stop_effect
    /\ gui_pc' = "idle"
    /\ written' = IF gui_pc = "idle" THEN {} ELSE written
    /\ armed_live' = {}
    /\ gui_op' = "handle_stop"
    /\ UNCHANGED <<recorded_tracks, saved>>
    /\ UNCHANGED not_gui_vars

\* ------------------------------------------------------------------------
\* Bucket (bucket.py)
\* ------------------------------------------------------------------------

\* class BucketState(Enum): the four members.
BucketStates ==
    {"BucketState.EMPTY", "BucketState.PLAYING", "BucketState.STOPPED",
     "BucketState.PAUSED"}

\* Arguments passed to set_bucket_state: the members, and the values
\* "playing" (a str) and 123 (an int), which are no BucketState.
StateArgs == BucketStates \cup {"str playing", "int 123"}

\* Strings passed as display names and paths; "" is the empty string.
NameArgs == {"", "My Loop"}

PathArgs == {"", "path/to/loop.loop"}

\* Loops assigned to the bucket: a named loop with tracks at 1..3, and a
\* loop whose name is the empty string.
LoopObjects ==
    {[loop_id |-> "Loop_A", loop_name |-> "Jam",
      loop_tracks |-> PartialLoopTracks],
     [loop_id |-> "Loop_B", loop_name |-> "",
      loop_tracks |-> DefaultLoopTracks]}

\* The track indicators of a new bucket.
NoTrackFilled == [pos \in VALID_POSITIONS |-> FALSE]

\* Bucket.__init__(bucket_id, is_bucket_active, bucket_state=...), the loop,
\* name and path left at their default None.
BucketInit(id, active, state) ==
    /\ bucket_id = id
    /\ is_bucket_active = active
    /\ bucket_state = state
    /\ mapped_loop = "None"
    /\ loop_display_name = "None"
    /\ loop_path = "None"
    /\ is_track_filled = NoTrackFilled
    /\ bucket_raised = "none"
    /\ bucket_op = [op |-> "init", arg |-> "None"]
    /\ cleared_painted = FALSE

\* What a Bucket call that only reports leaves alone.
BucketFrame ==
    /\ UNCHANGED <<bucket_id, cleared_painted>>
    /\ UNCHANGED not_bucket_vars

\* Bucket.set_is_bucket_active: toggles the flag.
set_is_bucket_active ==
    /\ is_bucket_active' = (IF ~is_bucket_active THEN TRUE ELSE FALSE)
    /\ bucket_raised' = "none"
    /\ bucket_op' = [op |-> "set_is_bucket_active", arg |-> "None"]
    /\ UNCHANGED <<bucket_state, mapped_loop, loop_display_name, loop_path,
                   is_track_filled>>
    /\ BucketFrame

\* Bucket.set_loop_display_name
set_loop_display_name(name) ==
    /\ IF name # ""
       THEN /\ loop_display_name' = name
            /\ bucket_raised' = "none"
       ELSE /\ bucket_raised' = "InvalidLoop"
            /\ UNCHANGED loop_display_name
    /\ bucket_op' = [op |-> "set_loop_display_name", arg |-> name]
    /\ UNCHANGED <<is_bucket_active, bucket_state, mapped_loop, loop_path,
                   is_track_filled>>
    /\ BucketFrame

\* Bucket.set_loop_path
set_loop_path(path) ==
    /\ IF path # ""
       THEN /\ loop_path' = path
            /\ bucket_raised' = "none"
       ELSE /\ bucket_raised' = "InvalidLoop"
            /\ UNCHANGED loop_path
    /\ bucket_op' = [op |-> "set_loop_path", arg |-> path]
    /\ UNCHANGED <<is_bucket_active, bucket_state, mapped_loop,
                   loop_display_name, is_track_filled>>
    /\ BucketFrame

\* A set_bucket_state that accepts the state the bucket is already in.
M_SetStateAcceptsSame(state) ==
    /\ IF state \notin BucketStates
       THEN /\ bucket_raised' = "TypeError"
            /\ UNCHANGED bucket_state
       ELSE /\ bucket_state' = state
            /\ bucket_raised' = "none"
    /\ bucket_op' = [op |-> "set_bucket_state", arg |-> state]
    /\ UNCHANGED <<is_bucket_active, mapped_loop, loop_display_name,
                   loop_path, is_track_filled>>
    /\ BucketFrame

\* Bucket.set_bucket_state (also reached through _mark_empty, _mark_paused,
\* _mark_playing and _mark_stopped)
set_bucket_state(state) ==
    /\ IF state \notin BucketStates
       THEN /\ bucket_raised' = "TypeError"
            /\ UNCHANGED bucket_state
       ELSE IF bucket_state = state
       THEN /\ bucket_raised' = "InvalidState"
            /\ UNCHANGED bucket_state
       ELSE /\ bucket_state' = state
            /\ bucket_raised' = "none"
    /\ bucket_op' = [op |-> "set_bucket_state", arg |-> state]
    /\ UNCHANGED <<is_bucket_active, mapped_loop, loop_display_name,
                   loop_path, is_track_filled>>
    /\ BucketFrame

\* Bucket.set_are_tracks_filled: {pos: (track is not None) for pos, track in
\* loop.loop_tracks.items()}
TracksFilled(loop) ==
    [pos \in DOMAIN loop.loop_tracks |-> loop.loop_tracks[pos] # None]

\* Bucket._assign_loop: the loop is mapped first; an empty display name
\* raises InvalidLoop in set_loop_display_name and leaves the rest undone.
assign_loop(loop) ==
    /\ mapped_loop' = loop.loop_id
    /\ IF loop.loop_name # ""
       THEN /\ loop_display_name' = loop.loop_name
            /\ loop_path' = loop.loop_id
            /\ is_track_filled' = TracksFilled(loop)
            /\ bucket_raised' = "none"
       ELSE /\ bucket_raised' = "InvalidLoop"
            /\ UNCHANGED <<loop_display_name, loop_path, is_track_filled>>
    /\ bucket_op' = [op |-> "_assign_loop", arg |-> loop.loop_id]
    /\ UNCHANGED <<is_bucket_active, bucket_state>>
    /\ BucketFrame

\* The bucket holds no default value in any of its fields.
Painted ==
    /\ is_bucket_active
    /\ mapped_loop # "None"
    /\ loop_display_name # "None"
    /\ loop_path # "None"
    /\ bucket_state # "BucketState.EMPTY"
    /\ \E pos \in VALID_POSITIONS : is_track_filled[pos]

\* A clear_bucket that leaves the track indicators as they are.
M_ClearBucketKeepsIndicators ==
    /\ is_bucket_active' = FALSE
    /\ mapped_loop' = "None"
    /\ loop_display_name' = "None"
    /\ loop_path' = "None"
    /\ bucket_state' = "BucketState.EMPTY"
    /\ UNCHANGED is_track_filled
    /\ bucket_raised' = "none"
    /\ bucket_op' = [op |-> "clear_bucket", arg |-> "None"]
    /\ cleared_painted' = Painted
    /\ UNCHANGED bucket_id
    /\ UNCHANGED not_bucket_vars

\* Bucket.clear_bucket
clear_bucket ==
    /\ is_bucket_active' = FALSE
    /\ mapped_loop' = "None"
    /\ loop_display_name' = "None"
    /\ loop_path' = "None"
    /\ bucket_state' = "BucketState.EMPTY"
    /\ is_track_filled' = [pos \in VALID_POSITIONS |-> FALSE]
    /\ bucket_raised' = "none"
    /\ bucket_op' = [op |-> "clear_bucket", arg |-> "None"]
    /\ cleared_painted' = Painted
    /\ UNCHANGED bucket_id
    /\ UNCHANGED not_bucket_vars

\* ------------------------------------------------------------------------
\* BucketsModule (buckets_module.py), seen at one of its buckets
\* ------------------------------------------------------------------------

\* BucketsModule(num_buckets=10)
NUM_BUCKETS == 10

\* bucket_id arguments: the bucket looked at, and two ids the module lacks.
BucketIdArgs == {bucket_id, 0, NUM_BUCKETS + 1}

\* self.buckets.get(bucket_id) is a bucket
KnownBucket(id) == id \in 1..NUM_BUCKETS

\* Arguments passed to load_bucket as its loop: a Loop object, the empty
\* string, and the path of a serialized loop, with the loop that
\* deserialize_loop returns for it.
LoadArgs ==
    {[kind |-> "path", loop |-> l] : l \in LoopObjects}
    \cup {[kind |-> k, loop |-> [loop_id |-> "None", loop_name |-> "None",
                                 loop_tracks |-> DefaultLoopTracks]] :
             k \in {"Loop object", "empty str"}}

\* The value of a bucket field after load_bucket's
\* "if bucket.get_is_bucket_active(): bucket.clear_bucket()".
ClearedFirst(value, default) == IF is_bucket_active THEN default ELSE value

\* BucketsModule.load_bucket: clears an active bucket, then
\* bucket.set_mapped_loop(loop) and bucket.set_is_bucket_active().
\* set_mapped_loop raises InvalidLoop for a falsy argument, Path(loop) in
\* deserialize_loop raises TypeError for a Loop object, and _assign_loop
\* raises InvalidLoop for a loop whose name is empty, after mapped_loop is
\* set; the toggle is reached only when nothing was raised.
load_bucket(arg, id) ==
    /\ IF ~KnownBucket(id)
       THEN /\ UNCHANGED bucket_fields
            /\ bucket_raised' = "none"
       ELSE /\ bucket_state' = ClearedFirst(bucket_state, "BucketState.EMPTY")
            /\ IF arg.kind = "path"
               THEN /\ mapped_loop' = arg.loop.loop_id
                    /\ IF arg.loop.loop_name # ""
                       THEN /\ loop_display_name' = arg.loop.loop_name
                            /\ loop_path' = arg.loop.loop_id
                            /\ is_track_filled' = TracksFilled(arg.loop)
                            /\ is_bucket_active' = TRUE
                            /\ bucket_raised' = "none"
                       ELSE /\ loop_display_name' =
                                   ClearedFirst(loop_display_name, "None")
                            /\ loop_path' = ClearedFirst(loop_path, "None")
                            /\ is_track_filled' =
                                   ClearedFirst(is_track_filled, NoTrackFilled)
                            /\ is_bucket_active' = FALSE
                            /\ bucket_raised' = "InvalidLoop"
               ELSE /\ mapped_loop' = ClearedFirst(mapped_loop, "None")
                    /\ loop_display_name' =
                           ClearedFirst(loop_display_name, "None")
                    /\ loop_path' = ClearedFirst(loop_path, "None")
                    /\ is_track_filled' =
                           ClearedFirst(is_track_filled, NoTrackFilled)
                    /\ is_bucket_active' = FALSE
                    /\ bucket_raised' = IF arg.kind = "empty str"
                                        THEN "InvalidLoop"
                                        ELSE "TypeError"
            /\ UNCHANGED bucket_id
    /\ bucket_op' = [op |-> "load_bucket", arg |-> id]
    /\ UNCHANGED <<cleared_painted, last_touched_bucket>>
    /\ UNCHANGED not_module_vars

\* BucketsModule.clear_bucket
module_clear_bucket(id) ==
    /\ IF ~KnownBucket(id)
       THEN UNCHANGED bucket_fields
       ELSE /\ is_bucket_active' = FALSE
            /\ mapped_loop' = "None"
            /\ loop_display_name' = "None"
            /\ loop_path' = "None"
            /\ bucket_state' = "BucketState.EMPTY"
            /\ is_track_filled' = NoTrackFilled
            /\ UNCHANGED bucket_id
    /\ bucket_raised' = "none"
    /\ bucket_op' = [op |-> "clear_bucket", arg |-> id]
    /\ UNCHANGED <<cleared_painted, last_touched_bucket>>
    /\ UNCHANGED not_module_vars

\* pause_bucket, play_bucket_state and stop_bucket: on a known and active
\* bucket, BucketsModule.set_bucket_state(bucket_id, state), which sets
\* last_touched_bucket after bucket.set_bucket_state returned; that call
\* raises InvalidState when the bucket is in the state already.
ModuleSetState(op, id, state) ==
    /\ IF KnownBucket(id) /\ is_bucket_active
       THEN IF bucket_state = state
            THEN /\ bucket_raised' = "InvalidState"
                 /\ UNCHANGED <<bucket_state, last_touched_bucket>>
            ELSE /\ bucket_state' = state
                 /\ last_touched_bucket' = id
                 /\ bucket_raised' = "none"
       ELSE /\ bucket_raised' = "none"
            /\ UNCHANGED <<bucket_state, last_touched_bucket>>
    /\ bucket_op' = [op |-> op, arg |-> id]
    /\ UNCHANGED <<bucket_id, is_bucket_active, mapped_loop,
                   loop_display_name, loop_path, is_track_filled,
                   cleared_painted>>
    /\ UNCHANGED not_module_vars

\* BucketsModule.pause_bucket
pause_bucket(id) == ModuleSetState("pause_bucket", id, "BucketState.PAUSED")

\* BucketsModule.play_bucket_state
play_bucket_state(id) ==
    ModuleSetState("play_bucket_state", id, "BucketState.PLAYING")

\* BucketsModule.stop_bucket
stop_bucket(id) == ModuleSetState("stop_bucket", id, "BucketState.STOPPED")

\* ------------------------------------------------------------------------
\* Track effects reached from the GUI (gui_src/button_data.py)
\* ------------------------------------------------------------------------

\* handle_slip with the dialog accepted and an integer typed:
\* track = loop.get_track(button_dict["track"]); track.slip(fs)
handle_slip(track, fs) ==
    /\ loop_tracks' = [loop_tracks EXCEPT ![track].track_data = Slip(@, fs)]
    /\ raised' = "none"
    /\ last_slot_op' = [op |-> "handle_slip", a |-> track, b |-> fs]
    /\ SlotFrame

\* ------------------------------------------------------------------------
\* The playback prototype (play_functions.py)
\* ------------------------------------------------------------------------

\* data, fs = sf.read(sample_file, always_2d=True)
demo_data == FileData("ramp")

\* The state when the stream is opened:
\* recording_track = np.full((len(data), 2), 0), current_frame = 0.
DemoInit ==
    /\ demo_recording_track = [k \in 1..Len(demo_data) |-> 0]
    /\ demo_current_frame = 0
    /\ demo_is_recording = FALSE
    /\ demo_outdata = <<>>
    /\ demo_delivered = [k \in 1..Len(demo_data) |-> 0]
    /\ demo_passes = 0

\* data[a:b] + recording_track[a:b]
DemoOut(rec, a, b) ==
    [k \in 1..Len(Slice(demo_data, a, b)) |->
        Slice(demo_data, a, b)[k] + Slice(rec, a, b)[k]]

\* recording_track[:len(block)] = block
Overwrite(data, block) ==
    [k \in 1..Len(data) |-> IF k <= Len(block) THEN block[k] ELSE data[k]]

\* callback(indata, outdata, frames, time, status)
demo_callback(frames, indata) ==
    /\ demo_is_recording => demo_passes < MaxDemoPasses
    /\ LET p == demo_current_frame
           chunksize == Min(Len(demo_data) - p, frames)
           end_frame == p + chunksize
           out1 == DemoOut(demo_recording_track, p, end_frame)
           rec1 == IF demo_is_recording
                   THEN Accumulate(demo_recording_track, p,
                                   Slice(indata, 0, chunksize))
                   ELSE demo_recording_track
           end2 == frames - chunksize
           out2 == DemoOut(rec1, 0, end2)
           rec2 == IF demo_is_recording
                   THEN Overwrite(rec1, Slice(indata, chunksize,
                                              frames + chunksize))
                   ELSE rec1
       IN  /\ IF chunksize < frames
              THEN /\ demo_outdata' = out1 \o out2
                   /\ demo_current_frame' = end2
                   /\ demo_recording_track' = rec2
              ELSE /\ demo_outdata' = out1
                   /\ demo_current_frame' = p + chunksize
                   /\ demo_recording_track' = rec1
           /\ IF demo_is_recording
              THEN /\ demo_delivered' = Deliver(demo_delivered, p, indata)
                   /\ demo_passes' = demo_passes + 1
              ELSE UNCHANGED <<demo_delivered, demo_passes>>
    /\ UNCHANGED demo_is_recording
    /\ UNCHANGED not_demo_vars

\* loop_effects["is_recording"] = True / False
demo_set_is_recording(b) ==
    /\ demo_is_recording' = b
    /\ UNCHANGED <<demo_recording_track, demo_current_frame, demo_outdata,
                   demo_delivered, demo_passes>>
    /\ UNCHANGED not_demo_vars

\* ------------------------------------------------------------------------
\* MasterClock
\* ------------------------------------------------------------------------

\* Python round() of the fraction n / d (n >= 0, d > 0): to the nearest
\* integer, an exact half to the even neighbour.
PyRound(n, d) ==
    LET q == n \div d
        r == n % d
    IN  IF 2 * r < d THEN q
        ELSE IF 2 * r > d THEN q + 1
        ELSE IF q % 2 = 0 THEN q ELSE q + 1

\* MasterClock.get_samples_per_tick, with
\* samples_per_beat = (sample_rate * 60) / bpm (get_samples_per_beat).
get_samples_per_tick(sr, tempo, subdivision) ==
    LET rounded == PyRound(sr * 60 * subdivision[1], tempo * subdivision[2])
    IN  IF rounded < 1 THEN 1 ELSE rounded

\* A snap that rounds an exact half down.
M_SnapHalfDown(sample_index, tick) ==
    ((sample_index + (tick - 1) \div 2) \div tick) * tick

\* MasterClock.get_closest_snap_point
get_closest_snap_point(sample_index, tick) ==
    ((sample_index + tick \div 2) \div tick) * tick

\* The clock of the scheduler demo (draft_class_structures.py:547-552),
\* MasterClock(48000, 120, (1, 4), 1 / 4), at the default sample index 0.
DefaultClock ==
    /\ sample_rate = 48000
    /\ bpm = 120
    /\ note_subdivision = <<1, 4>>
    /\ samples_per_tick = get_samples_per_tick(48000, 120, <<1, 4>>)
    /\ current_sample_index = 0
    /\ snap_in = -1
    /\ snap_out = -1

\* MasterClock.__init__
ClockInit(sr, tempo, subdivision, index) ==
    /\ sample_rate = sr
    /\ bpm = tempo
    /\ note_subdivision = subdivision
    /\ samples_per_tick = get_samples_per_tick(sr, tempo, subdivision)
    /\ current_sample_index = index
    /\ snap_in = -1
    /\ snap_out = -1

\* MasterClock.increment_sample_index
increment_sample_index(num_frames) ==
    /\ current_sample_index + num_frames <= MaxSampleIndex
    /\ current_sample_index' = current_sample_index + num_frames
    /\ UNCHANGED <<sample_rate, bpm, note_subdivision, samples_per_tick,
                   snap_in, snap_out>>
    /\ UNCHANGED sched_vars
    /\ UNCHANGED not_sched_vars

\* A call of MasterClock.get_closest_snap_point(sample_index).
snap(sample_index) ==
    /\ snap_in' = sample_index
    /\ snap_out' = get_closest_snap_point(sample_index, samples_per_tick)
    /\ UNCHANGED <<sample_rate, bpm, note_subdivision, samples_per_tick,
                   current_sample_index>>
    /\ UNCHANGED sched_vars
    /\ UNCHANGED not_sched_vars

\* ------------------------------------------------------------------------
\* Event and TrackScheduler
\* ------------------------------------------------------------------------

\* Event(event_id, ..., event_due_sample)
Event(id, due) == [event_id |-> id, event_due_sample |-> due]

\* The value of next_event when no event is pending (Python None).
NoEvent == Event(0, -1)

\* An ordering on due samples alone, without the tie-break on event_id.
M_LtDueOnly(self, some_other_event) ==
    self.event_due_sample < some_other_event.event_due_sample

\* Event.__lt__
Event_lt(self, some_other_event) ==
    IF self.event_due_sample > some_other_event.event_due_sample THEN FALSE
    ELSE IF self.event_due_sample < some_other_event.event_due_sample
    THEN TRUE
    ELSE IF self.event_id < some_other_event.event_id THEN TRUE
    ELSE FALSE

\* heapq._siftdown(heap, startpos, pos) with newitem held aside; positions
\* are the Python (0-based) ones.
RECURSIVE SiftDownLoop(_, _, _, _)
SiftDownLoop(heap, startpos, pos, newitem) ==
    IF pos > startpos
    THEN LET parentpos == (pos - 1) \div 2
             parent == heap[parentpos + 1]
         IN  IF Event_lt(newitem, parent)
             THEN SiftDownLoop([heap EXCEPT ![pos + 1] = parent],
                               startpos, parentpos, newitem)
             ELSE [heap EXCEPT ![pos + 1] = newitem]
    ELSE [heap EXCEPT ![pos + 1] = newitem]

\* heapq._siftdown
SiftDown(heap, startpos, pos) ==
    SiftDownLoop(heap, startpos, pos, heap[pos + 1])

\* heapq._siftup(heap, pos): the loop that bubbles the smaller child up,
\* then the final _siftdown.
RECURSIVE SiftUpLoop(_, _, _, _)
SiftUpLoop(heap, startpos, pos, newitem) ==
    LET endpos == Len(heap)
        childpos == 2 * pos + 1
    IN  IF childpos < endpos
        THEN LET rightpos == childpos + 1
                 child == IF rightpos < endpos
                             /\ ~Event_lt(heap[childpos + 1],
                                          heap[rightpos + 1])
                          THEN rightpos ELSE childpos
             IN  SiftUpLoop([heap EXCEPT ![pos + 1] = heap[child + 1]],
                            startpos, child, newitem)
        ELSE SiftDown([heap EXCEPT ![pos + 1] = newitem], startpos, pos)

\* heapq._siftup
SiftUp(heap, pos) == SiftUpLoop(heap, pos, pos, heap[pos + 1])

\* heapq.heappush: the heap after the push.
HeapPush(heap, item) ==
    SiftDown(Append(heap, item), 0, Len(heap))

\* heapq.heappop on a non-empty heap: the popped item and the heap left.
HeapPop(heap) ==
    LET lastelt == heap[Len(heap)]
        rest == SubSeq(heap, 1, Len(heap) - 1)
    IN  IF rest # <<>>
        THEN [item |-> rest[1],
              heap |-> SiftUp([rest EXCEPT ![1] = lastelt], 0)]
        ELSE [item |-> lastelt, heap |-> rest]

\* TrackScheduler.__init__
SchedInit ==
    /\ event_queue = <<>>
    /\ next_event = NoEvent
    /\ next_event_due_sample = -1
    /\ total_events_created = 0
    /\ events = <<>>
    /\ first_added = NoEvent
    /\ late_added = NoEvent
    /\ sched_op = "init"

\* History: the event, when its due sample is earlier than the clock.
LateAdded(event) ==
    IF event.event_due_sample < current_sample_index THEN event
    ELSE IF event_queue = <<>> THEN NoEvent
    ELSE late_added

\* An add_event that drops an event whose due sample has passed.
M_AddEventDropsLate(event) ==
    /\ total_events_created < MaxEvents
    /\ LET heap == IF event.event_due_sample < current_sample_index
                   THEN event_queue
                   ELSE HeapPush(event_queue, event)
       IN  /\ event_queue' = heap
           /\ next_event' = IF heap = <<>> THEN NoEvent ELSE heap[1]
           /\ next_event_due_sample' =
                  IF heap = <<>> THEN -1 ELSE heap[1].event_due_sample
    /\ total_events_created' = total_events_created + 1
    /\ first_added' = IF event_queue = <<>> THEN event ELSE first_added
    /\ late_added' = LateAdded(event)
    /\ sched_op' = "add_event"
    /\ UNCHANGED events
    /\ UNCHANGED clock_vars
    /\ UNCHANGED not_sched_vars

\* TrackScheduler.add_event, with update_next_event
add_event(event) ==
    /\ total_events_created < MaxEvents
    /\ LET heap == HeapPush(event_queue, event)
       IN  /\ event_queue' = heap
           /\ next_event' = heap[1]
           /\ next_event_due_sample' = heap[1].event_due_sample
    /\ total_events_created' = total_events_created + 1
    /\ first_added' = IF event_queue = <<>> THEN event ELSE first_added
    /\ late_added' = LateAdded(event)
    /\ sched_op' = "add_event"
    /\ UNCHANGED events
    /\ UNCHANGED clock_vars
    /\ UNCHANGED not_sched_vars

\* The while loop of empty_queue: the (due sample, id) pairs in pop order.
RECURSIVE DrainAll(_)
DrainAll(heap) ==
    IF heap = <<>> THEN <<>>
    ELSE LET popped == HeapPop(heap)
         IN  <<<<popped.item.event_due_sample, popped.item.event_id>>>>
                 \o DrainAll(popped.heap)

\* A drain that stops at the first event that is not yet due.
RECURSIVE DrainDue(_, _)
DrainDue(heap, now) ==
    IF heap = <<>> \/ heap[1].event_due_sample > now
    THEN [events |-> <<>>, heap |-> heap]
    ELSE LET popped == HeapPop(heap)
             further == DrainDue(popped.heap, now)
         IN  [events |-> <<<<popped.item.event_due_sample,
                             popped.item.event_id>>>> \o further.events,
              heap |-> further.heap]

M_EmptyQueueDueOnly ==
    /\ events' = DrainDue(event_queue, current_sample_index).events
    /\ event_queue' = DrainDue(event_queue, current_sample_index).heap
    /\ sched_op' = "empty_queue"
    /\ UNCHANGED <<next_event, next_event_due_sample, total_events_created,
                   first_added, late_added>>
    /\ UNCHANGED clock_vars
    /\ UNCHANGED not_sched_vars

\* TrackScheduler.empty_queue
empty_queue ==
    /\ events' = DrainAll(event_queue)
    /\ event_queue' = <<>>
    /\ sched_op' = "empty_queue"
    /\ UNCHANGED <<next_event, next_event_due_sample, total_events_created,
                   first_added, late_added>>
    /\ UNCHANGED clock_vars
    /\ UNCHANGED not_sched_vars

\* ------------------------------------------------------------------------
\* Specification of the loop engine: transport and audio callbacks
\* ------------------------------------------------------------------------

Init ==
    /\ \E tracks \in {DefaultLoopTracks, LoadedLoopTracks} : LoopInit(tracks)
    /\ StreamInit
    /\ CtlInit
    /\ BucketInit(1, FALSE, "BucketState.EMPTY")
    /\ TrackInit(<<>>, 0)
    /\ ExtInit
    /\ DemoInit
    /\ SchedInit
    /\ DefaultClock

Next ==
    \/ \E frames \in Frames : \E indata \in Blocks(frames) :
           Callback(frames, indata)
    \/ play
    \/ stop
    \/ pause
    \/ \E b \in BOOLEAN : set_is_recording(b)
    \/ \E track \in ArmedPositions : set_recording_track(track)

Spec == Init /\ [][Next]_vars

\* ------------------------------------------------------------------------
\* Specification of stop() racing the callback thread
\* ------------------------------------------------------------------------

InitStop ==
    /\ \E tracks \in {DefaultLoopTracks, LoadedLoopTracks} : LoopInit(tracks)
    /\ StreamInit
    /\ CtlInit
    /\ BucketInit(1, FALSE, "BucketState.EMPTY")
    /\ TrackInit(<<>>, 0)
    /\ ExtInit
    /\ DemoInit
    /\ SchedInit
    /\ DefaultClock

NextStop ==
    \/ \E frames \in Frames : \E indata \in Blocks(frames) :
           callback_enter(frames, indata)
    \/ callback_return
    \/ stop_call
    \/ stop_return
    \/ stream_play
    \/ \E b \in BOOLEAN : set_is_recording(b)

SpecStop == InitStop /\ [][NextStop]_vars

\* ------------------------------------------------------------------------
\* Specification of muting: a loaded loop played back while tracks are muted
\* ------------------------------------------------------------------------

InitMute ==
    /\ LoopInit(LoadedLoopTracks)
    /\ StreamInit
    /\ CtlInit
    /\ BucketInit(1, FALSE, "BucketState.EMPTY")
    /\ TrackInit(<<>>, 0)
    /\ ExtInit
    /\ DemoInit
    /\ SchedInit
    /\ DefaultClock

NextMute ==
    \/ \E frames \in Frames : \E indata \in Blocks(frames) :
           Callback(frames, indata)
    \/ play
    \/ stop
    \/ pause
    \/ \E pos \in VALID_POSITIONS : mute_track(pos)
    \/ \E pos \in VALID_POSITIONS : unmute_track(pos)

SpecMute == InitMute /\ [][NextMute]_vars

\* ------------------------------------------------------------------------
\* Specification of the track slots of a new Loop
\* ------------------------------------------------------------------------

\* Track(channel_config=...) as the callers of set_track build it.
NewTrack(cfg) == Track("New Track", cfg, EMPTY_TRACK)

InitSlots ==
    /\ LoopInit(DefaultLoopTracks)
    /\ StreamInit
    /\ CtlInit
    /\ BucketInit(1, FALSE, "BucketState.EMPTY")
    /\ TrackInit(<<>>, 0)
    /\ ExtInit
    /\ DemoInit
    /\ SchedInit
    /\ DefaultClock

NextSlots ==
    \/ \E cfg \in {1, 2} : \E position \in PositionArgs :
           set_track(NewTrack(cfg), position)
    \/ \E position \in PositionArgs : remove_track(position)
    \/ \E position_2 \in PositionArgs : \E position_1 \in PositionArgs :
           move_track(position_2, position_1)
    \/ \E from_pos \in PositionArgs : \E to_pos \in PositionArgs :
           Controller_move_track(from_pos, to_pos)

SpecSlots == InitSlots /\ [][NextSlots]_vars

\* ------------------------------------------------------------------------
\* Specification of a loop edited and played: slots emptied and moved,
\* positions armed, and the callback running on the result
\* ------------------------------------------------------------------------

InitEdit ==
    /\ LoopInit(LoadedLoopTracks)
    /\ StreamInit
    /\ CtlInit
    /\ BucketInit(1, FALSE, "BucketState.EMPTY")
    /\ TrackInit(<<>>, 0)
    /\ ExtInit
    /\ DemoInit
    /\ SchedInit
    /\ DefaultClock

NextEdit ==
    \/ \E position \in PositionArgs : remove_track(position)
    \/ \E position_2 \in PositionArgs : \E position_1 \in PositionArgs :
           move_track(position_2, position_1)
    \/ \E track \in ArmedPositions : set_recording_track(track)
    \/ play
    \/ \E frames \in Frames : \E indata \in Blocks(frames) :
           Callback(frames, indata)

SpecEdit == InitEdit /\ [][NextEdit]_vars

\* ------------------------------------------------------------------------
\* Specification of track effects applied from the GUI around playback
\* ------------------------------------------------------------------------

InitEffects ==
    /\ LoopInit(LoadedLoopTracks)
    /\ StreamInit
    /\ CtlInit
    /\ BucketInit(1, FALSE, "BucketState.EMPTY")
    /\ TrackInit(<<>>, 0)
    /\ ExtInit
    /\ DemoInit
    /\ SchedInit
    /\ DefaultClock

NextEffects ==
    \/ \E track \in ArmedPositions : \E fs \in SlipFrames :
           handle_slip(track, fs)
    \/ play
    \/ stop
    \/ pause
    \/ \E frames \in Frames : \E indata \in Blocks(frames) :
           Callback(frames, indata)

SpecEffects == InitEffects /\ [][NextEffects]_vars

\* ------------------------------------------------------------------------
\* Specification of the Controller working on its active loop
\* ------------------------------------------------------------------------

InitCtl ==
    /\ LoopInit(PartialLoopTracks)
    /\ StreamInit
    /\ CtlInit
    /\ BucketInit(1, FALSE, "BucketState.EMPTY")
    /\ TrackInit(<<>>, 0)
    /\ ExtInit
    /\ DemoInit
    /\ SchedInit
    /\ DefaultClock

NextCtl ==
    \/ set_active_loop(PartialLoopTracks)
    \/ \E position \in CtlPositions : \E is_occupied \in BOOLEAN :
           set_track_position_occupied(position, is_occupied)
    \/ update_all_tracks_occupied_status
    \/ \E position \in CtlPositions : \E volume \in VolumeArgs :
           adjust_track_volume(position, volume)
    \/ \E position \in CtlPositions : clear_track(position)
    \/ \E position \in CtlPositions : apply_reverse(position)
    \/ \E position \in CtlPositions : \E value \in XF1Args :
           apply_xf1(position, value)
    \/ \E position \in CtlPositions : \E value \in XF2Args :
           apply_xf2(position, value)
    \/ \E position \in CtlPositions : solo_track(position)

SpecCtl == InitCtl /\ [][NextCtl]_vars

\* ------------------------------------------------------------------------
\* Specification of a Bucket
\* ------------------------------------------------------------------------

\* Bucket ids.
BucketIds == {1, 2}

InitBucket ==
    /\ LoopInit(DefaultLoopTracks)
    /\ StreamInit
    /\ CtlInit
    /\ \E id \in BucketIds : \E active \in BOOLEAN :
       \E state \in BucketStates : BucketInit(id, active, state)
    /\ TrackInit(<<>>, 0)
    /\ ExtInit
    /\ DemoInit
    /\ SchedInit
    /\ DefaultClock

NextBucket ==
    \/ set_is_bucket_active
    \/ \E name \in NameArgs : set_loop_display_name(name)
    \/ \E path \in PathArgs : set_loop_path(path)
    \/ \E state \in StateArgs : set_bucket_state(state)
    \/ \E loop \in LoopObjects : assign_loop(loop)
    \/ clear_bucket

SpecBucket == InitBucket /\ [][NextBucket]_vars

\* ------------------------------------------------------------------------
\* Specification of a wrapping callback against the GUI thread
\* ------------------------------------------------------------------------

InitWrap ==
    /\ LoopInit(DefaultLoopTracks)
    /\ StreamInit
    /\ CtlInit
    /\ BucketInit(1, FALSE, "BucketState.EMPTY")
    /\ TrackInit(<<>>, 0)
    /\ GuiInit
    /\ ModuleInit
    /\ WrapInit
    /\ DemoInit
    /\ SchedInit
    /\ DefaultClock

NextWrap ==
    \/ \E frames \in Frames : \E indata \in Blocks(frames) :
           callback_unwrapped(frames, indata)
    \/ \E frames \in Frames : \E indata \in Blocks(frames) :
           callback_prewrap(frames, indata)
    \/ callback_postwrap
    \/ play
    \/ \E b \in BOOLEAN : set_is_recording(b)
    \/ \E track \in ArmedPositions : set_recording_track(track)

SpecWrap == InitWrap /\ [][NextWrap]_vars

\* ------------------------------------------------------------------------
\* Specification of the BucketsModule
\* ------------------------------------------------------------------------

InitModule ==
    /\ LoopInit(DefaultLoopTracks)
    /\ StreamInit
    /\ CtlInit
    /\ \E id \in BucketIds : BucketInit(id, FALSE, "BucketState.EMPTY")
    /\ TrackInit(<<>>, 0)
    /\ GuiInit
    /\ ModuleInit
    /\ WrapInit
    /\ DemoInit
    /\ SchedInit
    /\ DefaultClock

NextModule ==
    \/ \E arg \in LoadArgs : \E id \in BucketIdArgs : load_bucket(arg, id)
    \/ \E id \in BucketIdArgs : module_clear_bucket(id)
    \/ \E id \in BucketIdArgs : pause_bucket(id)
    \/ \E id \in BucketIdArgs : play_bucket_state(id)
    \/ \E id \in BucketIdArgs : stop_bucket(id)

SpecModule == InitModule /\ [][NextModule]_vars

\* ------------------------------------------------------------------------
\* Specification of one Track
\* ------------------------------------------------------------------------

InitTrack ==
    /\ LoopInit(DefaultLoopTracks)
    /\ StreamInit
    /\ CtlInit
    /\ BucketInit(1, FALSE, "BucketState.EMPTY")
    /\ \/ TrackInit(<<>>, 0)
       \/ \E n \in FileLens : TrackInit(<<AudioFile(n)>>, 1)
    /\ ExtInit
    /\ DemoInit
    /\ SchedInit
    /\ DefaultClock

NextTrack ==
    \/ generate_track_file
    \/ set_data
    \/ set_last_track
    \/ track_clear
    \/ reverse
    \/ \E frames \in SlipArgs : slip(frames)
    \/ \E block \in Blocks(1) : track_record(DEFAULT_LOOP_LEN - 1, block)
    \/ \E volume \in TrackVolumeArgs : set_volume(volume)

SpecTrack == InitTrack /\ [][NextTrack]_vars

\* ------------------------------------------------------------------------
\* Specification of the GUI transport handlers against the audio thread
\* ------------------------------------------------------------------------

InitGui ==
    /\ LoopInit(DefaultLoopTracks)
    /\ StreamInit
    /\ CtlInit
    /\ BucketInit(1, FALSE, "BucketState.EMPTY")
    /\ TrackInit(<<>>, 0)
    /\ GuiInit
    /\ ModuleInit
    /\ WrapInit
    /\ DemoInit
    /\ SchedInit
    /\ DefaultClock

NextGui ==
    \/ \E indata \in Blocks(1) : Callback(1, indata)
    \/ handle_play
    \/ handle_record
    \/ \E track \in SelectArgs : handle_select_track(track)
    \/ handle_stop_write
    \/ handle_stop_return

SpecGui == InitGui /\ [][NextGui]_vars

\* ------------------------------------------------------------------------
\* Specification of the playback prototype
\* ------------------------------------------------------------------------

InitDemo ==
    /\ LoopInit(DefaultLoopTracks)
    /\ StreamInit
    /\ CtlInit
    /\ BucketInit(1, FALSE, "BucketState.EMPTY")
    /\ TrackInit(<<>>, 0)
    /\ ExtInit
    /\ DemoInit
    /\ SchedInit
    /\ DefaultClock

NextDemo ==
    \/ \E frames \in Frames : \E indata \in Blocks(frames) :
           demo_callback(frames, indata)
    \/ \E b \in BOOLEAN : demo_set_is_recording(b)

SpecDemo == InitDemo /\ [][NextDemo]_vars

\* ------------------------------------------------------------------------
\* Specification of the scheduler and its clock
\* ------------------------------------------------------------------------

EventIds == 1..MaxEventId

DueSamples == 1..MaxDueSample

InitSched ==
    /\ LoopInit(DefaultLoopTracks)
    /\ StreamInit
    /\ CtlInit
    /\ BucketInit(1, FALSE, "BucketState.EMPTY")
    /\ TrackInit(<<>>, 0)
    /\ ExtInit
    /\ DemoInit
    /\ SchedInit
    /\ DefaultClock

NextSched ==
    \/ \E id \in EventIds : \E due \in DueSamples : add_event(Event(id, due))
    \/ empty_queue
    \/ \E num_frames \in 1..2 : increment_sample_index(num_frames)

SpecSched == InitSched /\ [][NextSched]_vars

\* ------------------------------------------------------------------------
\* Specification of the clock's quantization
\* ------------------------------------------------------------------------

\* Note subdivisions as fractions <<numerator, denominator>> of a beat.
NoteSubdivisions ==
    {<<1, 4>>, <<1, 24>>, <<1, 4800>>, <<1, 8000>>, <<1, 12000>>,
     <<1, 16000>>, <<1, 48000>>}

\* Sample indexes passed to get_closest_snap_point.
SnapInputs == (0..MaxSnapIndex) \cup {1499, 1500}

InitClock ==
    /\ LoopInit(DefaultLoopTracks)
    /\ StreamInit
    /\ CtlInit
    /\ BucketInit(1, FALSE, "BucketState.EMPTY")
    /\ TrackInit(<<>>, 0)
    /\ ExtInit
    /\ DemoInit
    /\ SchedInit
    /\ \E subdivision \in NoteSubdivisions :
           ClockInit(48000, 120, subdivision, 0)

NextClock ==
    \/ \E sample_index \in SnapInputs : snap(sample_index)
    \/ \E num_frames \in 1..2 : increment_sample_index(num_frames)

SpecClock == InitClock /\ [][NextClock]_vars

\* ------------------------------------------------------------------------
\* Properties of the audio callback and the transport
\* ------------------------------------------------------------------------

\* The buffer frame (as a sequence index) that frame k of a block starting
\* at playhead p plays.
FrameAt(p, k) == ((p + k - 1) % DEFAULT_LOOP_LEN) + 1

\* The clipped sum of all tracks, frame by frame around the loop end.
WrappedMix(tracks, p, frames) ==
    [k \in 1..frames |->
        Clip(SumValues([pos \in DOMAIN tracks |->
                           tracks[pos].track_data[FrameAt(p, k)]]))]

\* C1: a callback whose block passes the loop end (p + frames > L) writes the
\* clipped mix of all tracks over [p, L) followed by the clipped mix over
\* [0, (p + frames) mod L), and leaves the playhead at (p + frames) mod L.
C1_WrapOutput ==
    [][\A frames \in Frames : \A indata \in Blocks(frames) :
          (/\ current_frame + frames > DEFAULT_LOOP_LEN
           /\ last_call'.frames = frames
           /\ Callback(frames, indata))
          => /\ outdata' = WrappedMix(loop_tracks, current_frame, frames)
             /\ current_frame' =
                    (current_frame + frames) % DEFAULT_LOOP_LEN]_vars

\* A wrapping callback has run on audible tracks and the playhead is where it
\* left it.
C1_Witness ==
    /\ last_call.p >= 0
    /\ last_call.p + last_call.frames > DEFAULT_LOOP_LEN
    /\ stream_active
    /\ Len(outdata) = last_call.frames
    /\ outdata[1] # 0
    /\ outdata[Len(outdata)] # 0
    /\ current_frame > 0
    /\ current_frame =
           (last_call.p + last_call.frames) % DEFAULT_LOOP_LEN

\* Loop._callback: every track buffer holds its original data plus all input
\* delivered to it while it was armed, unclipped.
LoopOverdubAccumulates ==
    \A pos \in VALID_POSITIONS : \A k \in 1..DEFAULT_LOOP_LEN :
        loop_tracks[pos].track_data[k] = original[pos][k] + delivered[pos][k]

\* The prototype callback: the overdub buffer, all zero when the stream is
\* opened, holds all input delivered to it.
DemoOverdubAccumulates ==
    \A k \in 1..Len(demo_data) :
        demo_recording_track[k] = 0 + demo_delivered[k]

\* C2: after any sequence of audio callbacks, blocks that wrap included,
\* every sample of the buffer recorded into equals its original value plus
\* the sum of the input samples delivered at that frame; input is
\* accumulated, never overwritten, and the stored values are not clipped.
C2_OverdubAccumulates ==
    LoopOverdubAccumulates /\ DemoOverdubAccumulates

\* C4: when every track is muted the callback writes an all-zero block.
C4_AllMutedSilence ==
    [][\A frames \in Frames : \A indata \in Blocks(frames) :
          (/\ \A pos \in VALID_POSITIONS : muted[pos]
           /\ last_call'.frames = frames
           /\ Callback(frames, indata))
          => \A k \in 1..Len(outdata') : outdata'[k] = 0]_vars

\* C3: every sample of every output block lies in [-1.0, 1.0].
C3_OutputClipped ==
    \A k \in 1..Len(outdata) : CLIP_MIN <= outdata[k] /\ outdata[k] <= CLIP_MAX

\* A wrapping block was written from tracks whose sum exceeds the range in the
\* part before and in the part after the wrap, with an overdubbed buffer that
\* stores a sample beyond the range.
C3_Witness ==
    /\ last_call.p >= 0
    /\ last_call.p + last_call.frames > DEFAULT_LOOP_LEN
    /\ Len(outdata) = last_call.frames
    /\ overdubs > 0
    /\ \E pos \in VALID_POSITIONS : \E k \in 1..DEFAULT_LOOP_LEN :
          /\ delivered[pos][k] # 0
          /\ loop_tracks[pos].track_data[k] > CLIP_MAX
    /\ outdata[1] = CLIP_MAX
    /\ outdata[Len(outdata)] = CLIP_MIN

\* C10: the first callback after pause() and play() reads the buffer from the
\* playhead held at the time of pause().
C10_ResumeAtPausedFrame ==
    last_call.resumed # -1 => last_call.p = last_call.resumed

\* A callback has resumed from a playhead other than 0 retained by pause().
C10_Witness ==
    /\ last_call.resumed > 0
    /\ last_call.p = last_call.resumed
    /\ is_playing
    /\ stream_active

\* C11: once stop() has returned the playhead is 0 and the loop is not
\* playing, and until the next play() no callback changes the playhead or a
\* track buffer; a callback that was running when stop() was called completes
\* before the playhead is reset.
C11_StopIsFinal ==
    /\ [](stop_state = "stopped" => (current_frame = 0 /\ ~is_playing))
    /\ [][(stop_state = "stopped" /\ stop_state' = "stopped")
             => (/\ current_frame' = current_frame
                 /\ loop_tracks' = loop_tracks)]_vars

\* stop() was called while a recording callback was running; that callback
\* left the playhead away from 0 and stop() reset it afterwards.
C11_Witness ==
    /\ stop_state = "stopped"
    /\ stop_waited
    /\ flushed_frame > 0
    /\ overdubs > 0
    /\ current_frame = 0
    /\ ~is_playing

\* C16: a destructive mutation of a track buffer requested while the loop is
\* playing does not change the buffer.
C16_NoMutationWhilePlaying ==
    [][\A track \in ArmedPositions : \A fs \in SlipFrames :
          (/\ is_playing
           /\ handle_slip(track, fs))
          => loop_tracks' = loop_tracks]_vars

\* C17: the playhead is always an offset inside the loop buffer,
\* 0 <= playhead < L, and every callback advances it by frames modulo L, the
\* case p + frames = L included.
C17_PlayheadInsideLoop ==
    /\ [](0 <= current_frame /\ current_frame < DEFAULT_LOOP_LEN)
    /\ [][\A frames \in Frames : \A indata \in Blocks(frames) :
             (/\ last_call'.frames = frames
              /\ Callback(frames, indata))
             => current_frame' =
                    (current_frame + frames) % DEFAULT_LOOP_LEN]_vars

\* ------------------------------------------------------------------------
\* Properties of the track slots
\* ------------------------------------------------------------------------

Occupied(position) == loop_tracks[position] # None

\* The slots after an exchange of positions a and b, all others as before.
Exchanged(tracks, a, b) ==
    [pos \in DOMAIN tracks |->
        IF pos = a THEN tracks[b]
        ELSE IF pos = b THEN tracks[a]
        ELSE tracks[pos]]

\* C8: move_track between two occupied positions whose tracks differ in
\* channel configuration, or with a position outside 1..6, signals an error
\* and leaves every position as it was.
C8_RejectedMoveChangesNothing ==
    [][\A position_2 \in PositionArgs : \A position_1 \in PositionArgs :
          (/\ move_track(position_2, position_1)
           /\ \/ position_1 \notin VALID_POSITIONS
              \/ position_2 \notin VALID_POSITIONS
              \/ /\ Occupied(position_1)
                 /\ Occupied(position_2)
                 /\ loop_tracks[position_1].channel_config
                        # loop_tracks[position_2].channel_config)
          => /\ raised' # "none"
             /\ loop_tracks' = loop_tracks]_vars

\* A move between a mono and a stereo track was rejected.
C8_Witness ==
    /\ last_slot_op.op = "move_track"
    /\ raised = "TypeError"
    /\ last_slot_op.a \in VALID_POSITIONS
    /\ last_slot_op.b \in VALID_POSITIONS
    /\ Occupied(last_slot_op.a)
    /\ Occupied(last_slot_op.b)
    /\ loop_tracks[last_slot_op.a].channel_config = 1
    /\ loop_tracks[last_slot_op.b].channel_config = 2

\* C9: move_track(a, b) with valid positions succeeds and exchanges slots a
\* and b, leaving the others unchanged, whenever one of the slots is empty or
\* both hold tracks of the same channel configuration.
C9_CompatibleMoveSwaps ==
    [][\A position_2 \in PositionArgs : \A position_1 \in PositionArgs :
          (/\ move_track(position_2, position_1)
           /\ position_1 \in VALID_POSITIONS
           /\ position_2 \in VALID_POSITIONS
           /\ \/ ~Occupied(position_1)
              \/ ~Occupied(position_2)
              \/ loop_tracks[position_1].channel_config
                     = loop_tracks[position_2].channel_config)
          => /\ raised' = "none"
             /\ loop_tracks' =
                    Exchanged(loop_tracks, position_2, position_1)]_vars

\* C12: after any sequence of set_track, remove_track and move_track calls,
\* with any position arguments, the keys of the position-to-track mapping are
\* exactly 1..6.
C12_KeySetIsOneToSix == DOMAIN loop_tracks = VALID_POSITIONS

\* C13: the armed recording position always refers to a slot that holds a
\* track, also after remove_track or move_track has emptied a slot.
C13_ArmedSlotHoldsTrack ==
    /\ recording_track \in VALID_POSITIONS
    /\ Occupied(recording_track)

\* C15: the audio callback never raises: with emptied slots or with an armed
\* position whose slot is empty it completes and writes a full output block.
C15_CallbackNeverRaises ==
    [][\A frames \in Frames : \A indata \in Blocks(frames) :
          (/\ last_call'.frames = frames
           /\ Callback(frames, indata))
          => /\ raised' = "none"
             /\ Len(outdata') = frames]_vars

\* ------------------------------------------------------------------------
\* Properties of the Controller
\* ------------------------------------------------------------------------

\* One of the six Controller track operations, called with the position.
AnyTrackOperation(position) ==
    \/ \E volume \in VolumeArgs : adjust_track_volume(position, volume)
    \/ clear_track(position)
    \/ apply_reverse(position)
    \/ \E value \in XF1Args : apply_xf1(position, value)
    \/ \E value \in XF2Args : apply_xf2(position, value)
    \/ solo_track(position)

\* C14: every Controller track operation called with a position outside 1..6
\* or with a position whose slot holds no track reports an error and changes
\* no state.
C14_TrackOperationsReportErrors ==
    [][\A position \in CtlPositions :
          (/\ ctl_op'.position = position
           /\ \/ position \notin VALID_POSITIONS
              \/ loop_tracks[position] = None
           /\ AnyTrackOperation(position))
          => /\ ctl_raised' # "none"
             /\ UNCHANGED <<loop_tracks, track_occupied, track_settings,
                            loop_to_play>>]_vars

\* C20: after update_all_tracks_occupied_status and any clear_track calls,
\* track_occupied[p] is true exactly when slot p of the active loop holds a
\* track, for every p in 1..6; clear_track(p) on an occupied position empties
\* slot p and clears flag p, and it changes no other slot and no other flag.
C20_OccupiedMatchesSlots ==
    /\ [](occupied_updated =>
             \A pos \in VALID_POSITIONS :
                 track_occupied[pos] <=> loop_tracks[pos] # None)
    /\ [][\A position \in CtlPositions :
             (/\ ctl_op'.position = position
              /\ clear_track(position))
             => /\ \A pos \in VALID_POSITIONS \ {position} :
                       /\ loop_tracks'[pos] = loop_tracks[pos]
                       /\ track_occupied'[pos] = track_occupied[pos]
                /\ (position \in VALID_POSITIONS /\ track_occupied[position])
                       => /\ loop_tracks'[position] = None
                          /\ ~track_occupied'[position]]_vars

\* After the update, clear_track(1) emptied slot 1 and cleared its flag, and
\* slots 2 and 3 still hold their tracks with their flags set.
C20_Witness ==
    /\ occupied_updated
    /\ ctl_op = [op |-> "clear_track", position |-> 1]
    /\ loop_tracks[1] = None
    /\ ~track_occupied[1]
    /\ loop_tracks[2] # None
    /\ track_occupied[2]
    /\ track_occupied[3]
    /\ ~track_occupied[4]

\* ------------------------------------------------------------------------
\* Properties of the Bucket
\* ------------------------------------------------------------------------

\* C18: set_bucket_state(s) raises TypeError and leaves the state unchanged
\* when s is not a BucketState, raises InvalidState and leaves it unchanged
\* when s is the current state, and otherwise sets the state to s.
C18_SetBucketState ==
    [][\A state \in StateArgs :
          (/\ bucket_op'.arg = state
           /\ set_bucket_state(state))
          => IF state \notin BucketStates
             THEN bucket_raised' = "TypeError" /\ bucket_state' = bucket_state
             ELSE IF state = bucket_state
             THEN /\ bucket_raised' = "InvalidState"
                  /\ bucket_state' = bucket_state
             ELSE bucket_raised' = "none" /\ bucket_state' = state]_vars

\* A bucket that was moved to PAUSED refused to be set to PAUSED again.
C18_Witness ==
    /\ bucket_op = [op |-> "set_bucket_state", arg |-> "BucketState.PAUSED"]
    /\ bucket_raised = "InvalidState"
    /\ bucket_state = "BucketState.PAUSED"
    /\ Painted

\* The fields of Bucket(bucket_id) with every other argument at its default
\* (bucket.py:107-132).
FreshBucket(id) ==
    <<id, FALSE, "BucketState.EMPTY", "None", "None", "None",
      [pos \in VALID_POSITIONS |-> FALSE]>>

\* C19: clear_bucket() yields the state of a freshly constructed bucket with
\* the same id from any bucket state, and clearing a cleared bucket changes
\* nothing.
C19_ClearBucketRestoresFresh ==
    [][clear_bucket
          => /\ bucket_fields' = FreshBucket(bucket_id)
             /\ bucket_fields = FreshBucket(bucket_id)
                    => bucket_fields' = bucket_fields]_vars

\* clear_bucket ran on a bucket with no field at its default and left a
\* fresh bucket.
C19_Witness ==
    /\ bucket_op.op = "clear_bucket"
    /\ cleared_painted
    /\ bucket_id = 2
    /\ bucket_fields = FreshBucket(2)

\* ------------------------------------------------------------------------
\* Properties of the scheduler and the clock
\* ------------------------------------------------------------------------

\* (due, id) pairs in ascending order of due sample, then of id.
PairLeq(x, y) == x[1] < y[1] \/ (x[1] = y[1] /\ x[2] <= y[2])

\* Number of occurrences of x in the sequence s.
Count(s, x) == Cardinality({i \in 1..Len(s) : s[i] = x})

\* C5: whatever the order of the add_event calls, events come out in
\* ascending order of due sample, equal due samples in ascending order of id.
C5_PopOrder ==
    \A i \in 1..Len(events) : \A j \in 1..Len(events) :
        i < j => PairLeq(events[i], events[j])

\* e1(due 2, id 2), added first, e2(due 2, id 1) and e3(due 1, id 3) came out
\* as e3, e2, e1.
C5_Witness ==
    /\ sched_op = "empty_queue"
    /\ first_added = Event(2, 2)
    /\ events = << <<1, 3>>, <<2, 1>>, <<2, 2>> >>

C7_SnapNearestHalfUp ==
    /\ samples_per_tick >= 1
    /\ snap_in >= 0 =>
          /\ snap_out % samples_per_tick = 0
          /\ 2 * snap_in - samples_per_tick < 2 * snap_out
          /\ 2 * snap_out <= 2 * snap_in + samples_per_tick
    /\ (samples_per_tick = 1000 /\ snap_in = 1499) => snap_out = 1000
    /\ (samples_per_tick = 1000 /\ snap_in = 1500) => snap_out = 2000

\* An exact half was snapped upwards on the grid of 1000 samples.
C7_Witness ==
    /\ samples_per_tick = 1000
    /\ snap_in = 1500
    /\ snap_out = 2000

\* C21: an event scheduled with a due sample earlier than the clock's
\* current sample index is accepted and kept in the queue, and the next
\* empty_queue call returns it, before every event with a later due sample.
C21_LateEventIsReturnedNext ==
    /\ [][\A id \in EventIds : \A due \in DueSamples :
             (/\ due < current_sample_index
              /\ add_event(Event(id, due)))
             => Count(event_queue', Event(id, due))
                    = Count(event_queue, Event(id, due)) + 1]_vars
    /\ [][empty_queue =>
             \A i \in 1..Len(event_queue) :
                 event_queue[i].event_due_sample < current_sample_index
                 => \E j \in 1..Len(events') :
                       /\ events'[j] = <<event_queue[i].event_due_sample,
                                         event_queue[i].event_id>>
                       /\ \A k \in 1..Len(events') :
                              events'[k][1] > events'[j][1] => j < k]_vars

\* An event was added after its due sample had passed, behind an event with
\* a later due sample, and empty_queue returned it first.
C21_Witness ==
    /\ sched_op = "empty_queue"
    /\ late_added # NoEvent
    /\ first_added # late_added
    /\ first_added.event_due_sample > late_added.event_due_sample
    /\ Len(events) >= 2
    /\ events[1] = <<late_added.event_due_sample, late_added.event_id>>

\* The pending event with the smallest (due sample, id).
SmallestPending(queue) ==
    CHOOSE e \in {queue[i] : i \in 1..Len(queue)} :
        \A i \in 1..Len(queue) :
            PairLeq(<<e.event_due_sample, e.event_id>>,
                    <<queue[i].event_due_sample, queue[i].event_id>>)

\* C22: get_next_event() returns the pending event with the smallest
\* (due sample, id) and leaves it in the queue, and returns None exactly when
\* no event is pending; get_next_event_due_sample() is its due sample.
C22_NextEventIsSmallestPending ==
    IF event_queue = <<>>
    THEN next_event = NoEvent /\ next_event_due_sample = -1
    ELSE /\ next_event = SmallestPending(event_queue)
         /\ next_event_due_sample = next_event.event_due_sample

\* ------------------------------------------------------------------------
\* Properties of a Track
\* ------------------------------------------------------------------------

\* C23: the track buffer has the loop length L in every reachable state:
\* after construction from a shorter or longer file, set_data, clear,
\* reverse, slip with any offset, set_last_track and recording.
C23_BufferLengthIsLoopLength == Len(track_data) = DEFAULT_LOOP_LEN

\* An undo read back a file longer than the track, cut to the track length.
C23_Witness ==
    /\ Len(files) = 2
    /\ track_filepath = 1
    /\ Len(files[1]) > DEFAULT_LOOP_LEN
    /\ track_stack = <<>>
    /\ track_data = Slice(files[1], 0, DEFAULT_LOOP_LEN)
    /\ Len(track_data) = DEFAULT_LOOP_LEN

\* C24: the volume of a track is within 0.0..1.0 in every reachable state.
C24_VolumeInRange == 0 <= track_volume /\ track_volume <= 10

\* C29: on a track whose undo stack is not empty, generate_track_file and
\* set_last_track leave the track's current file path the last element of
\* track_stack.
C29_FilePathIsTopOfStack ==
    [][track_stack # <<>> =>
          /\ track_stack' # <<>>
          /\ track_filepath' = track_stack'[Len(track_stack')]]_vars

\* ------------------------------------------------------------------------
\* Properties of pause()
\* ------------------------------------------------------------------------

\* C25: pause() moves the loop out of playing: after it the loop reports
\* that it is not playing, and the recording flag and the armed position are
\* as before.
C25_PauseLeavesPlaying ==
    [][pause => /\ ~is_playing'
                /\ is_recording' = is_recording
                /\ recording_track' = recording_track]_vars

\* ------------------------------------------------------------------------
\* Properties of the GUI transport handlers
\* ------------------------------------------------------------------------

\* C26: between handlers, whenever the loop is both playing and recording
\* the armed position is in recorded_tracks; and handle_stop writes a file
\* for every position armed while playing and recording since the last stop
\* and leaves recorded_tracks empty.
C26_ArmedPositionIsListed ==
    /\ [](gui_pc = "idle" /\ is_playing /\ is_recording
            => InList(recording_track, recorded_tracks))
    /\ [][gui_op' = "handle_stop" /\ gui_pc' = "idle" /\ armed_live # {}
            => /\ armed_live \subseteq written'
               /\ recorded_tracks' = <<>>]_vars

\* handle_stop has written the files of the two positions armed while the
\* loop played and recorded, and is about to stop the loop.
C26_Witness ==
    /\ gui_pc = "stopping"
    /\ armed_live = {1, 2}
    /\ written = {1, 2}
    /\ recorded_tracks = <<>>
    /\ is_playing
    /\ is_recording

\* C27: when handle_stop completes, the file saved for each recorded track
\* holds exactly the track's buffer.
C27_SavedFileIsBuffer ==
    [][gui_op' = "handle_stop" /\ gui_pc = "stopping" /\ gui_pc' = "idle"
          => \A t \in written' : saved'[t] = loop_tracks'[t].track_data]_vars

\* ------------------------------------------------------------------------
\* Properties of the BucketsModule
\* ------------------------------------------------------------------------

\* C30: after any sequence of BucketsModule operations the bucket's state is
\* EMPTY exactly when the bucket is inactive, and the bucket is active
\* exactly when it has a mapped loop; play, pause and stop on an inactive or
\* unknown bucket change nothing, last_touched_bucket included.
C30_StateMatchesActivity ==
    /\ []((bucket_state = "BucketState.EMPTY") <=> ~is_bucket_active)
    /\ [](is_bucket_active <=> (mapped_loop # "None"))
    /\ [][/\ bucket_op'.op \in {"pause_bucket", "play_bucket_state",
                                 "stop_bucket"}
          /\ (~is_bucket_active \/ ~KnownBucket(bucket_op'.arg))
          => UNCHANGED <<bucket_fields, last_touched_bucket>>]_vars

\* ------------------------------------------------------------------------
\* Properties of a wrapping block
\* ------------------------------------------------------------------------

\* C28: within one invocation of the callback whose block wraps, the input
\* frames before the wrap and those after it are accumulated into the same
\* single track or are both discarded, whatever the GUI thread sets
\* meanwhile.
C28_WrappingBlockIsUniform ==
    [][wrap_block # NoBlock /\ wrap_block' = NoBlock
          => post_rec' = pre_rec']_vars

====
